---- MODULE Spec2Model ----
(***************************************************************************)
(* Panora ticketing services: the push cycle (TicketService.addTicket,     *)
(* AttachmentService.addAttachment) and the paginated readers (getAccounts,*)
(* getContacts, getUsers, getTeams, getAttachments) over the Prisma store. *)
(*                                                                         *)
(* Ids, cursors and connection ids are strings, as in the code; "" is the  *)
(* absent (undefined) value, which is what the code's truthiness tests     *)
(* (if (cursor), if (accountId)) take for absent.  Dates are integers read *)
(* from the clock `now`; 0 is a date column the code never set.            *)
(***************************************************************************)
EXTENDS FiniteSets, Integers, Sequences, TLC

\* ------------------------------------------------------------------ bounds
\* operations per behaviour of the push specification
MaxOps == 2
\* longest assigned_to list of an addTicket input
MaxAssignees == 2
\* records per entity table in the read specification
MaxRecords == 3
\* largest limit of a list call
MaxLimit == 2
\* list calls per behaviour of the read specification
MaxCalls == 2
\* list calls per behaviour of the pagination specification
MaxPages == 4
\* get calls per behaviour of the single-record specification
MaxGets == 2
\* calls per behaviour of the interleaved specification
MaxInterleaved == 4

\* --------------------------------------------------------------- constants
\* resp.statusCode === 201
Created == 201

Connections == {"c1", "c2"}
Providers == {"zendesk"}
Entities == {"account", "contact", "user", "team", "attachment"}
LinkedUserIds == {"lu1", "lu_ghost"}
ProviderIds == {"zendesk", "nope"}
RemoteIds == {"rt-1", "rt-2"}
FileNames == {"f1", "f2"}

VARIABLES
  linked_users,     \* prisma.linked_users
  tcg_accounts,     \* prisma.tcg_accounts
  tcg_contacts,     \* prisma.tcg_contacts
  tcg_users,        \* prisma.tcg_users
  tcg_teams,        \* prisma.tcg_teams
  tcg_attachments,  \* prisma.tcg_attachments
  tcg_tickets,      \* prisma.tcg_tickets
  value,            \* prisma.value joined with attribute and entity: overlay rows
  remote_data,      \* prisma.remote_data: raw snapshots
  events,           \* prisma.events, in insertion order
  webhooks,         \* dispatches handed to WebhookService, in order
  connectorCalls,   \* number of calls of the provider connector's addTicket
  pageQueries,      \* number of findMany page queries run
  now,              \* the clock read by new Date()
  nextId,           \* number of uuidv4() values drawn so far
  ops,              \* number of service calls made so far
  last,             \* what the last service call was given and what it returned
  iter,             \* the chain of list calls a client follows through next_cursor
  session,          \* the endpoint, connection and snapshot flag of a reading client
  inflight,         \* the addTicket cycles that run concurrently, each at its await
  enrich,           \* the list call whose per-record lookups are in flight
  connections,      \* prisma.connections
  zendesk           \* calls received by ZendeskHandlerService, in order

vars == <<linked_users, tcg_accounts, tcg_contacts, tcg_users, tcg_teams,
          tcg_attachments, tcg_tickets, value, remote_data, events, webhooks,
          connectorCalls, pageQueries, now, nextId, ops, last, iter, session,
          inflight, enrich, connections, zendesk>>

staticTables ==
  <<linked_users, tcg_accounts, tcg_contacts, tcg_users, tcg_teams, connections>>

\* ------------------------------------------------------------ the store
\* uuidv4(): the n-th value drawn; never equal to an earlier one
Uuid(n) == "uuid-" \o ToString(n)

\* The mutable part of the store as one value, threaded through a handler.
\* A handler that throws half-way returns the store as it was at the throw:
\* no handler opens a transaction.  The clock moves on between two service
\* calls and between two records created by one call.  `log` lists, in the
\* order the handler awaits them, the writes and dispatches of the call and,
\* for addTicket, the validations that passed, the connector call and the reads.
DB ==
  [ attachments |-> tcg_attachments, tickets |-> tcg_tickets, value |-> value,
    remote_data |-> remote_data, events |-> events, webhooks |-> webhooks,
    calls |-> connectorCalls, queries |-> pageQueries, nextId |-> nextId,
    now |-> now, log |-> <<>> ]

Commit(db) ==
  /\ tcg_attachments' = db.attachments
  /\ tcg_tickets' = db.tickets
  /\ value' = db.value
  /\ remote_data' = db.remote_data
  /\ events' = db.events
  /\ webhooks' = db.webhooks
  /\ connectorCalls' = db.calls
  /\ pageQueries' = db.queries
  /\ nextId' = db.nextId
  /\ now' = db.now + 1

\* the store with steps added to the log of the call
Logged(db, steps) == [db EXCEPT !.log = @ \o steps]

\* events.create whose row never reaches the table
eventsCreateDropped(db, connection_id, type, status, provider, linkedUserId) ==
  [ db |-> [db EXCEPT !.nextId = @ + 1],
    event |-> [id_event |-> Uuid(db.nextId), type |-> type, status |-> status] ]

\* prisma.events.create({data: {..., id_event: uuidv4(), ...}})
eventsCreate(db, connection_id, type, status, provider, linkedUserId) ==
  LET ev == [ id_event |-> Uuid(db.nextId), id_connection |-> connection_id,
              type |-> type, status |-> status, provider |-> provider,
              timestamp |-> db.now, id_linked_user |-> linkedUserId ]
  IN [ db |-> [db EXCEPT !.events = Append(@, ev), !.nextId = @ + 1,
                         !.log = Append(@, "event")],
       event |-> ev ]

\* prisma.value.findMany({where: {entity: {ressource_owner_id: id}}}) folded
\* into the Map slug -> data the handlers build from it
fieldMappingsMap(db, id) ==
  { [slug |-> v.slug, data |-> v.data] : v \in {w \in db.value : w.owner = id} }

\* prisma.remote_data.findFirst({where: {ressource_owner_id: id}})
remoteDataFindFirst(db, id) == {r \in db.remote_data : r.owner = id}

\* ------------------------------------------------- ticket.service.ts
ErrLinkedUser == "Linked User Not Found"
ErrAccount == "You inserted an account_id which does not exist"
ErrContact == "You inserted a contact_id which does not exist"
ErrAssignee == "You inserted an assignee which does not exist"
ErrAttachment == "You inserted an attachment_id which does not exist"
ErrPrismaValidation == "PrismaClientValidationError"
ErrTypeError == "TypeError"
ErrConnector == "connector error"
ErrWebhook == "webhook error"
ErrTicketNotFound == "Ticket not found"
ErrAttachmentNotFound == "Attachment not found"
ErrCursor == "The provided cursor does not exist!"
ErrUserUndefined == "User undefined"
ErrIngest == "ingest error"
ErrUnique == "Unique constraint failed"
ErrRecordNotFound == "Record to update not found"

\* validateLinkedUser with the lookup result ignored
validateLinkedUserSkipped(linkedUserId) == [err |-> "", id_project |-> "p1"]

\* validateLinkedUser: the linked user row, or the error thrown
validateLinkedUser(linkedUserId) ==
  LET found == {u \in linked_users : u.id_linked_user = linkedUserId}
  IN IF found = {} THEN [err |-> ErrLinkedUser, id_project |-> ""]
     ELSE [err |-> "", id_project |-> (CHOOSE u \in found : TRUE).id_project]

\* validateAccountId: findUnique by id alone; "" when nothing is thrown
validateAccountId(accountId) ==
  IF accountId # "" /\ {r \in tcg_accounts : r.id = accountId} = {}
  THEN ErrAccount ELSE ""

validateContactId(contactId) ==
  IF contactId # "" /\ {r \in tcg_contacts : r.id = contactId} = {}
  THEN ErrContact ELSE ""

\* validateAssignees: Promise.all over every element; rejects when any lookup
\* finds nothing
validateAssigneesFirstOnly(assignees) ==
  IF Len(assignees) > 0 /\ {r \in tcg_users : r.id = assignees[1]} = {}
  THEN ErrAssignee ELSE ""

validateAssignees(assignees) ==
  IF Len(assignees) > 0
     /\ \E i \in 1..Len(assignees) : {r \in tcg_users : r.id = assignees[i]} = {}
  THEN ErrAssignee ELSE ""

\* registry.getService('ticketing', 'attachment').saveToDb: one attachment
\* record per element handed over, each under a fresh id; the ids in order
RECURSIVE saveToDb(_, _, _, _)
saveToDb(db, connection_id, linkedUserId, attachments) ==
  IF attachments = <<>> THEN [db |-> db, ids |-> <<>>]
  ELSE LET a == Head(attachments)
           rec == [ id |-> Uuid(db.nextId), file_name |-> a.file_name,
                    id_connection |-> connection_id, uploader |-> linkedUserId,
                    created_at |-> db.now, modified_at |-> db.now ]
           db1 == [db EXCEPT !.attachments = @ \cup {rec}, !.nextId = @ + 1,
                             !.now = @ + 1]
           rest == saveToDb(db1, connection_id, linkedUserId, Tail(attachments))
       IN [db |-> rest.db, ids |-> <<rec.id>> \o rest.ids]

\* processAttachments: the branch is chosen by the type of the FIRST element
processAttachments(db, attachments, connection_id, linkedUserId, integrationId) ==
  IF Len(attachments) > 0
  THEN IF attachments[1].kind = "id"
       THEN IF \E i \in 1..Len(attachments) : attachments[i].kind # "id"
            THEN \* findUnique({where: {id_tcg_attachment: <an object>}})
                 [err |-> ErrPrismaValidation, db |-> db, ids |-> <<>>]
            ELSE IF \E i \in 1..Len(attachments) :
                      {r \in db.attachments : r.id = attachments[i].id} = {}
                 THEN [err |-> ErrAttachment, db |-> db, ids |-> <<>>]
                 ELSE [err |-> "",
                       db |-> Logged(db, [i \in 1..Len(attachments) |->
                                            "attachment:" \o attachments[i].id]),
                       ids |-> [i \in 1..Len(attachments) |-> attachments[i].id]]
       ELSE LET saved == saveToDb(db, connection_id, linkedUserId, attachments)
            IN [err |-> "", db |-> Logged(saved.db, <<"saveToDb">>), ids |-> saved.ids]
  ELSE [err |-> "", db |-> db, ids |-> <<>>]

\* fieldMappingService.getCustomFieldMappings(integrationId, linkedUserId,
\* 'ticketing.ticket'): the slugs defined for the provider and linked user
getCustomFieldMappings(integrationId, linkedUserId) ==
  IF integrationId \in Providers THEN {"priority_custom"} ELSE {}

\* coreUnification.desunify: the provider payload; an overlay value goes out
\* only under a rule handed in
desunify(sourceObject, customFieldMappings) ==
  [ custom |-> {m \in sourceObject.field_mappings : m.slug \in customFieldMappings} ]

\* coreUnification.unify of [resp.data]: fields absent from the provider output
\* are omitted; overlay values come back under the rules handed in
unify(data, customFieldMappings) ==
  [ remote_id |-> data.id, name |-> data.name,
    field_mappings |-> {m \in data.custom : m.slug \in customFieldMappings} ]

\* ingestService.processFieldMappings: put(recordId, slug -> value), one row
\* per (record, slug)
processFieldMappings(db, field_mappings, id) ==
  LET slugs == {m.slug : m \in field_mappings}
      kept == {v \in db.value : ~(v.owner = id /\ v.slug \in slugs)}
      rows == {[owner |-> id, slug |-> m.slug, data |-> m.data] : m \in field_mappings}
  IN [db EXCEPT !.value = kept \cup rows, !.log = Append(@, "overlay")]

\* ingestService.processRemoteData: the record's one current snapshot
processRemoteData(db, id, source) ==
  [db EXCEPT !.remote_data =
     {r \in @ : r.owner # id} \cup {[owner |-> id, data |-> source.id]},
             !.log = Append(@, "snapshot")]

\* saveOrUpdateTicket, and the upsert that never looks for an existing row
saveOrUpdateTicketAlwaysCreate(db, ticket, connection_id) ==
  LET data == [ id_tcg_ticket |-> Uuid(db.nextId), modified_at |-> db.now,
                name |-> ticket.name, remote_id |-> ticket.remote_id,
                id_connection |-> connection_id, created_at |-> 0 ]
  IN [ err |-> "",
       db |-> [db EXCEPT !.tickets = @ \cup {data}, !.nextId = @ + 1,
                         !.log = Append(@, "upsert")],
       id |-> data.id_tcg_ticket, existing |-> "" ]

\* prisma.tcg_tickets.findFirst({where: {remote_id, id_connection}})
findFirstTicket(db, ticket, connection_id) ==
  {t \in db.tickets : t.remote_id = ticket.remote_id /\ t.id_connection = connection_id}

\* The write of saveOrUpdateTicket, given what its findFirst returned. data
\* always carries a fresh id_tcg_ticket, and the update writes all of data over
\* the row whose id the lookup returned.  `constrained` is whether the store
\* holds a unique constraint on (remote_id, id_connection): a create of a key
\* that is taken is then rejected; an update of a row that is gone is rejected.
writeTicket(db, ticket, connection_id, found, constrained) ==
  LET data == [ id_tcg_ticket |-> Uuid(db.nextId), modified_at |-> db.now,
                name |-> ticket.name, remote_id |-> ticket.remote_id,
                id_connection |-> connection_id ]
      db1 == [db EXCEPT !.nextId = @ + 1, !.log = Append(@, "upsert")]
  IN IF found # {}
     THEN LET existingTicket == CHOOSE t \in found : TRUE
              row == {t \in db.tickets : t.id_tcg_ticket = existingTicket.id_tcg_ticket}
          IN IF row = {}
             THEN [ err |-> ErrRecordNotFound, db |-> [db EXCEPT !.nextId = @ + 1],
                    id |-> "", existing |-> existingTicket.id_tcg_ticket ]
             ELSE LET current == CHOOSE t \in row : TRUE
                      updated == [created_at |-> current.created_at] @@ data
                  IN [ err |-> "",
                       db |-> [db1 EXCEPT !.tickets = (@ \ {current}) \cup {updated}],
                       id |-> existingTicket.id_tcg_ticket,
                       existing |-> existingTicket.id_tcg_ticket ]
     ELSE IF constrained /\ findFirstTicket(db, ticket, connection_id) # {}
     THEN [ err |-> ErrUnique, db |-> [db EXCEPT !.nextId = @ + 1], id |-> "",
            existing |-> "" ]
     ELSE [ err |-> "",
            db |-> [db1 EXCEPT !.tickets = @ \cup {[created_at |-> 0] @@ data}],
            id |-> data.id_tcg_ticket, existing |-> "" ]

\* saveOrUpdateTicket run without another cycle between its lookup and its
\* write: the write acts on what the lookup has just seen
saveOrUpdateTicket(db, ticket, connection_id) ==
  writeTicket(db, ticket, connection_id, findFirstTicket(db, ticket, connection_id),
              TRUE)

\* getTicket, the single-record read of a ticket: not found is an error, the
\* overlay is merged, the snapshot attached on request, and a pull event is
\* written only for a call that names a linked user and a provider
getTicket(db, id, linkedUserId, integrationId, connection_id, want_remote_data) ==
  LET found == {t \in db.tickets : t.id_tcg_ticket = id}
      snap == remoteDataFindFirst(db, id)
  IN IF found = {} THEN [err |-> ErrTicketNotFound, db |-> db, res |-> [id |-> ""]]
     ELSE IF want_remote_data /\ snap = {}
     THEN [err |-> ErrTypeError, db |-> db, res |-> [id |-> ""]]
     ELSE LET ticket == CHOOSE t \in found : TRUE
              res == [ id |-> ticket.id_tcg_ticket, remote_id |-> ticket.remote_id,
                       name |-> ticket.name,
                       field_mappings |-> fieldMappingsMap(db, id),
                       remote_data |-> IF want_remote_data
                                       THEN {r.data : r \in snap} ELSE {} ]
              db1 == IF linkedUserId # "" /\ integrationId # ""
                     THEN eventsCreate(db, connection_id, "ticketing.ticket.pull",
                                       "success", integrationId, linkedUserId).db
                     ELSE db
          IN [err |-> "", db |-> db1, res |-> res]

\* serviceRegistry.getService(integrationId): whether a connector is registered
getService(integrationId) == integrationId \in Providers

\* service.addTicket(desunifiedObject, linkedUserId): the provider connector.
\* `connector` is what the provider does on this call; the raw response echoes
\* the custom fields of the payload.
connectorAddTicket(connector, desunifiedObject) ==
  [ statusCode |-> connector.statusCode,
    data |-> [ id |-> connector.id, name |-> connector.name,
               custom |-> desunifiedObject.custom ] ]

\* the audit status that ignores the connector's status code
statusRespAlwaysSuccess(statusCode) == "success"

\* resp.statusCode === 201 ? 'success' : 'fail'
statusResp(statusCode) == IF statusCode = Created THEN "success" ELSE "fail"

\* the connector called again when it throws
invokeConnectorRetry(db, connector, desunifiedObject) ==
  IF connector.throws
  THEN [ err |-> ErrConnector,
         db |-> [db EXCEPT !.calls = @ + 2, !.log = @ \o <<"connector", "connector">>],
         resp |-> [statusCode |-> 0, data |-> [id |-> "", name |-> "", custom |-> {}]] ]
  ELSE [ err |-> "",
         db |-> [db EXCEPT !.calls = @ + 1, !.log = Append(@, "connector")],
         resp |-> connectorAddTicket(connector, desunifiedObject) ]

\* await service.addTicket(desunifiedObject, linkedUserId): one call; what it
\* throws is thrown on
invokeConnector(db, connector, desunifiedObject) ==
  IF connector.throws
  THEN [ err |-> ErrConnector,
         db |-> [db EXCEPT !.calls = @ + 1, !.log = Append(@, "connector")],
         resp |-> [statusCode |-> 0, data |-> [id |-> "", name |-> "", custom |-> {}]] ]
  ELSE [ err |-> "",
         db |-> [db EXCEPT !.calls = @ + 1, !.log = Append(@, "connector")],
         resp |-> connectorAddTicket(connector, desunifiedObject) ]

\* the dispatch made ahead of every write of the cycle
dispatchWebhookEarly(db, type, data, id_project, id_event, threw) ==
  [db EXCEPT !.webhooks = Append(@, [ type |-> type, data |-> data,
                                     id_project |-> id_project,
                                     id_event |-> id_event, threw |-> threw ]),
             !.log = <<"webhook">> \o @]

\* webhook.dispatchWebhook(record, type, linkedUser.id_project, event.id_event)
dispatchWebhook(db, type, data, id_project, id_event, threw) ==
  [db EXCEPT !.webhooks = Append(@, [ type |-> type, data |-> data,
                                     id_project |-> id_project,
                                     id_event |-> id_event, threw |-> threw ]),
             !.log = Append(@, "webhook")]

\* the rules handed to desunify whatever the input carries
desunifyMappingsAlways(data, customFieldMappings) == customFieldMappings

\* customFieldMappings: unifiedTicketData.field_mappings ? customFieldMappings
\* : []  (an empty object is present: it is truthy)
desunifyMappings(data, customFieldMappings) ==
  IF data.has_field_mappings THEN customFieldMappings ELSE {}

\* What an addTicket call leaves behind besides the store: the error thrown
\* ("" when it returned), and what its steps saw and produced.
NoTrace(db) ==
  [ err |-> "", db |-> db, existing |-> "", upsertId |-> "", res |-> [id |-> ""],
    event |-> "", desunifyRules |-> {}, unifyRules |-> {}, attachments |-> <<>>,
    upserted |-> FALSE, desunified |-> FALSE, unified |-> FALSE ]

\* addTicket up to the unified connector response (ticket.service.ts:44-112):
\* the trace so far, the response and the unified ticket
addTicketHead(db, a) ==
  LET t0 == NoTrace(db)
      none == [statusCode |-> 0, data |-> [id |-> "", name |-> "", custom |-> {}]]
      noTicket == [remote_id |-> "", name |-> "", field_mappings |-> {}]
      fail(t, e) == [t |-> [t EXCEPT !.err = e], resp |-> none, target |-> noTicket]
      linkedUser == validateLinkedUser(a.linkedUserId)
      eAccount == validateAccountId(a.data.account_id)
      eContact == validateContactId(a.data.contact_id)
      eAssignees == validateAssignees(a.data.assigned_to)
  IN
  IF linkedUser.err # "" THEN fail(t0, linkedUser.err)
  ELSE IF eAccount # "" THEN fail(t0, eAccount)
  ELSE IF eContact # "" THEN fail(t0, eContact)
  ELSE IF eAssignees # "" THEN fail(t0, eAssignees)
  ELSE
  LET validated ==
        <<"validateLinkedUser">>
        \o (IF a.data.account_id # "" THEN <<"account:" \o a.data.account_id>> ELSE <<>>)
        \o (IF a.data.contact_id # "" THEN <<"contact:" \o a.data.contact_id>> ELSE <<>>)
        \o [i \in 1..Len(a.data.assigned_to) |-> "assignee:" \o a.data.assigned_to[i]]
      att == processAttachments(Logged(db, validated), a.data.attachments,
                                a.connection_id, a.linkedUserId, a.integrationId)
      t1 == [t0 EXCEPT !.db = att.db, !.attachments = att.ids]
  IN
  IF att.err # "" THEN fail(t1, att.err)
  ELSE
  LET customFieldMappings == getCustomFieldMappings(a.integrationId, a.linkedUserId)
      desunifyRules == desunifyMappings(a.data, customFieldMappings)
      desunifiedObject == desunify(a.data, desunifyRules)
      t2 == [t1 EXCEPT !.desunifyRules = desunifyRules, !.desunified = TRUE]
  IN
  IF ~getService(a.integrationId) THEN fail(t2, ErrTypeError)
  ELSE
  LET called == invokeConnector(t2.db, a.connector, desunifiedObject)
      t3 == [t2 EXCEPT !.db = called.db]
  IN
  IF called.err # "" THEN fail(t3, called.err)
  ELSE [ t |-> [t3 EXCEPT !.unifyRules = customFieldMappings, !.unified = TRUE],
         resp |-> called.resp,
         target |-> unify(called.resp.data, customFieldMappings) ]

\* addTicket after saveOrUpdateTicket (ticket.service.ts:114-167); `saved` is
\* what the upsert returned. a.ingestThrows names the ingest write that throws
\* on this call, if any.
addTicketTail(t3, a, resp, target_ticket, saved) ==
  LET source_ticket == resp.data
      unique_ticketing_ticket_id == saved.id
      t4 == [t3 EXCEPT !.db = saved.db, !.existing = saved.existing]
  IN
  IF saved.err # "" THEN [t4 EXCEPT !.err = saved.err]
  ELSE
  LET t4u == [t4 EXCEPT !.upsertId = unique_ticketing_ticket_id, !.upserted = TRUE]
      db4 == processFieldMappings(saved.db, target_ticket.field_mappings,
                                  unique_ticketing_ticket_id)
      db5 == processRemoteData(db4, unique_ticketing_ticket_id, source_ticket)
  IN
  IF a.ingestThrows = "processFieldMappings" THEN [t4u EXCEPT !.err = ErrIngest]
  ELSE IF a.ingestThrows = "processRemoteData"
  THEN [t4u EXCEPT !.err = ErrIngest, !.db = db4]
  ELSE
  LET got == getTicket(db5, unique_ticketing_ticket_id, "", "", a.connection_id,
                       a.remote_data)
      t5 == [t4u EXCEPT !.db = Logged(got.db, <<"reread">>)]
  IN
  IF got.err # "" THEN [t5 EXCEPT !.err = got.err]
  ELSE
  LET status_resp == statusResp(resp.statusCode)
      linkedUser == validateLinkedUser(a.linkedUserId)
      created == eventsCreate(t5.db, a.connection_id, "ticketing.ticket.push",
                              status_resp, a.integrationId, a.linkedUserId)
      t6 == [t5 EXCEPT !.db = created.db, !.res = got.res,
                       !.event = created.event.id_event]
      t7 == [t6 EXCEPT !.db = dispatchWebhook(@, "ticketing.ticket.created",
                                 got.res.id, linkedUser.id_project,
                                 created.event.id_event, a.webhookThrows)]
  IN
  IF a.webhookThrows THEN [t7 EXCEPT !.err = ErrWebhook, !.res = [id |-> ""]]
  ELSE t7

\* addTicket(unifiedTicketData, connection_id, integrationId, linkedUserId,
\* project_id, remote_data); a.connector, a.ingestThrows and a.webhookThrows
\* are what the provider, the ingest service and the webhook service do when
\* this call reaches them
addTicket(db, a) ==
  LET head == addTicketHead(db, a)
  IN IF head.t.err # "" THEN head.t
     ELSE addTicketTail(head.t, a, head.resp, head.target,
                        saveOrUpdateTicket(head.t.db, head.target, a.connection_id))

\* ------------------------------------------- attachment service (part_000)
\* the pull event written by every read
pullEventWantedAlways(linkedUserId, integrationId) == TRUE

\* if (linkedUserId && integrationId) before the events.create of getAttachment
pullEventWanted(linkedUserId, integrationId) ==
  linkedUserId # "" /\ integrationId # ""

\* getAttachment: findUnique by id alone
getAttachment(db, id, linkedUserId, integrationId, connection_id, want_remote_data) ==
  LET found == {r \in db.attachments : r.id = id}
      snap == remoteDataFindFirst(db, id)
  IN IF found = {}
     THEN [err |-> ErrAttachmentNotFound, db |-> db, res |-> [id |-> ""]]
     ELSE IF want_remote_data /\ snap = {}
     THEN \* JSON.parse(resp.data) with resp null
          [err |-> ErrTypeError, db |-> db, res |-> [id |-> ""]]
     ELSE LET attachment == CHOOSE r \in found : TRUE
              res == [ id |-> attachment.id, file_name |-> attachment.file_name,
                       uploader |-> attachment.uploader,
                       created_at |-> attachment.created_at,
                       modified_at |-> attachment.modified_at,
                       field_mappings |-> [ shape |-> "object",
                                            map |-> fieldMappingsMap(db, id) ],
                       remote_data |-> IF want_remote_data
                                       THEN {r.data : r \in snap} ELSE {} ]
              db1 == IF pullEventWanted(linkedUserId, integrationId)
                     THEN eventsCreate(db, connection_id, "ticketing.attachment.pull",
                                       "success", integrationId, linkedUserId).db
                     ELSE db
          IN [err |-> "", db |-> db1, res |-> res]

\* the lookup of addAttachment that never finds a record
findFirstAttachmentNever(db, file_name, connection_id) == {}

\* prisma.tcg_attachments.findFirst({where: {file_name, id_connection}})
findFirstAttachment(db, file_name, connection_id) ==
  {r \in db.attachments : r.file_name = file_name /\ r.id_connection = connection_id}

\* addAttachment(unifiedAttachmentData, connection_id, integrationId,
\* linkedUserId, project_id, remote_data)
\* prisma.tcg_attachments.update({where: {id_tcg_attachment}, data: {file_name,
\* uploader, modified_at: new Date()}}): the id, the connection and created_at
\* stay as they were
updateAttachment(existingAttachment, a, at) ==
  [existingAttachment EXCEPT !.file_name = a.data.file_name,
                             !.uploader = a.linkedUserId,
                             !.modified_at = at]

addAttachment(db, a) ==
  LET t0 == NoTrace(db)
      linkedUser == validateLinkedUser(a.linkedUserId)
  IN
  IF linkedUser.err # "" THEN [t0 EXCEPT !.err = linkedUser.err]
  ELSE
  LET found == findFirstAttachment(db, a.data.file_name, a.connection_id)
      existingAttachment == CHOOSE r \in found : TRUE
      created == [ id |-> Uuid(db.nextId), file_name |-> a.data.file_name,
                   uploader |-> a.linkedUserId, created_at |-> db.now,
                   modified_at |-> db.now, id_connection |-> a.connection_id ]
      db1 == IF found # {}
             THEN [db EXCEPT !.attachments = (@ \ {existingAttachment}) \cup
                     {updateAttachment(existingAttachment, a, db.now)},
                             !.log = Append(@, "upsert")]
             ELSE [db EXCEPT !.attachments = @ \cup {created}, !.nextId = @ + 1,
                             !.log = Append(@, "upsert")]
      unique_ticketing_attachment_id ==
        IF found # {} THEN existingAttachment.id ELSE created.id
      got == getAttachment(db1, unique_ticketing_attachment_id, "", "",
                           a.connection_id, a.remote_data)
      t1 == [t0 EXCEPT !.db = got.db, !.upsertId = unique_ticketing_attachment_id,
                       !.existing = IF found # {} THEN existingAttachment.id ELSE "",
                       !.upserted = TRUE]
  IN
  IF got.err # "" THEN [t1 EXCEPT !.err = got.err]
  ELSE
  LET ev == eventsCreate(got.db, a.connection_id, "ticketing.attachment.push",
                         "success", a.integrationId, a.linkedUserId)
      t2 == [t1 EXCEPT !.res = got.res, !.event = ev.event.id_event,
               !.db = dispatchWebhook(ev.db, "ticketing.attachment.created",
                                      got.res.id, linkedUser.id_project,
                                      ev.event.id_event, a.webhookThrows)]
  IN
  IF a.webhookThrows THEN [t2 EXCEPT !.err = ErrWebhook, !.res = [id |-> ""]]
  ELSE t2

\* ------------------------------------------- @webhook/handler.service.ts
\* what a function that runs into `return;` hands its caller
Undefined == "undefined"

\* the provider keys the two switch statements have a case for
HandledProviders == {"zendesk"}

\* this.zendesk.createWebhook(data, mw_ids): the call received, and the
\* webhook it answers with
zendeskCreateWebhook(calls, data, mw_ids) ==
  [ calls |-> Append(calls, [fn |-> "createWebhook", data |-> data, mw_ids |-> mw_ids]),
    res |-> "webhook:" \o data ]

\* this.zendesk.handler(payload, headers, id_managed_webhook)
zendeskHandler(calls, payload, headers, id_managed_webhook) ==
  [ calls |-> Append(calls, [fn |-> "handler", data |-> payload,
                             mw_ids |-> <<id_managed_webhook>>]),
    res |-> "handled:" \o payload ]

\* createExternalWebhook(id_connection, data, mw_ids): the connection's row,
\* then the switch on its provider_slug
createExternalWebhook(calls, id_connection, data, mw_ids) ==
  LET found == {c \in connections : c.id_connection = id_connection}
  IN IF found = {} THEN [err |-> "", calls |-> calls, res |-> Undefined]
     ELSE LET conn == CHOOSE c \in found : TRUE
          IN IF conn.provider_slug = "zendesk"
             THEN LET made == zendeskCreateWebhook(calls, data, mw_ids)
                  IN [err |-> "", calls |-> made.calls, res |-> made.res]
             ELSE \* default: warn and return
                  [err |-> "", calls |-> calls, res |-> Undefined]

\* handleExternalIncomingWebhook(metadata): the switch on connector_name
handleExternalIncomingWebhook(calls, metadata) ==
  IF metadata.connector_name = "zendesk"
  THEN LET handled == zendeskHandler(calls, metadata.payload, metadata.headers,
                                     metadata.id_managed_webhook)
       IN [err |-> "", calls |-> handled.calls, res |-> handled.res]
  ELSE \* default: warn and return
       [err |-> "", calls |-> calls, res |-> Undefined]

\* ------------------------------------------------- the paginated readers
\* Buffer.from(id).toString('base64'): a token that is never itself an id
Base64(id) == "b64:" \o id

\* prisma findMany({orderBy: {created_at: 'asc'}}): the rows by creation date
RECURSIVE orderByCreatedAt(_)
orderByCreatedAt(rows) ==
  IF rows = {} THEN <<>>
  ELSE LET r == CHOOSE x \in rows : \A y \in rows : x.created_at <= y.created_at
       IN <<r>> \o orderByCreatedAt(rows \ {r})

\* take: limit, with no row fetched beyond the page
pageTakeExact(limit) == limit

\* take: limit + 1
pageTake(limit) == limit + 1

\* findMany with the connection left out of the where clause
findManyAnyConnection(table, connection_id, cursor, take) ==
  LET at == {r \in table : r.id = cursor}
      from == IF cursor = "" THEN table
              ELSE IF at = {} THEN {}
              ELSE {r \in table : r.created_at >= (CHOOSE c \in at : TRUE).created_at}
      ordered == orderByCreatedAt(from)
  IN SubSeq(ordered, 1, IF take < Len(ordered) THEN take ELSE Len(ordered))

\* findMany that starts after the cursor row
findManyAfterCursor(table, connection_id, cursor, take) ==
  LET scoped == {r \in table : r.id_connection = connection_id}
      at == {r \in table : r.id = cursor}
      from == IF cursor = "" THEN scoped
              ELSE IF at = {} THEN {}
              ELSE {r \in scoped : r.created_at > (CHOOSE c \in at : TRUE).created_at}
      ordered == orderByCreatedAt(from)
  IN SubSeq(ordered, 1, IF take < Len(ordered) THEN take ELSE Len(ordered))

\* findMany({take, cursor: {id}, orderBy: {created_at: 'asc'}, where:
\* {id_connection}}): the connection's rows in creation order, from the cursor
\* row on (the cursor row included), at most `take` of them
findMany(table, connection_id, cursor, take) ==
  LET scoped == {r \in table : r.id_connection = connection_id}
      at == {r \in table : r.id = cursor}
      from == IF cursor = "" THEN scoped
              ELSE IF at = {} THEN {}
              ELSE {r \in scoped : r.created_at >= (CHOOSE c \in at : TRUE).created_at}
      ordered == orderByCreatedAt(from)
  IN SubSeq(ordered, 1, IF take < Len(ordered) THEN take ELSE Len(ordered))

\* the cursor check with the connection left out of the where clause
isCursorPresentAnyConnection(table, connection_id, cursor) ==
  {r \in table : r.id = cursor} # {}

\* findFirst({where: {id_connection, id: cursor}})
isCursorPresent(table, connection_id, cursor) ==
  {r \in table : r.id_connection = connection_id /\ r.id = cursor} # {}

\* next_cursor taken from the last row kept in the page
nextCursorOfPage(rows, limit) ==
  IF Len(rows) = limit + 1 /\ limit >= 1 THEN Base64(rows[Len(rows) - 1].id) ELSE ""

\* if (rows.length === limit + 1) next_cursor = base64(last row's id)
nextCursor(rows, limit) ==
  IF Len(rows) = limit + 1 THEN Base64(rows[Len(rows)].id) ELSE ""

\* the pull event written only for a page that holds a record
pullEventIfAny(db, a, entity, page) ==
  IF page = <<>> THEN [db |-> db, event |-> [id_event |-> ""]]
  ELSE eventsCreate(db, a.connection_id, "ticketing." \o entity \o ".pull",
                    "success", a.integrationId, a.linkedUserId)

\* await this.prisma.events.create({data: {status: 'success', type:
\* 'ticketing.<entity>.pull', ...}}): once per call, after the page is built
pullEvent(db, a, entity, page) ==
  eventsCreate(db, a.connection_id, "ticketing." \o entity \o ".pull",
               "success", a.integrationId, a.linkedUserId)

\* how a handler shapes field_mappings: Array.from(map, ([k, v]) => ({[k]: v}))
\* in getAccounts, Object.fromEntries(map) in the others
fmShapeOf(entity) == IF entity = "account" THEN "array" ELSE "object"

\* whether the handler returns res, the snapshot-enriched array: getAttachments
\* returns unifiedAttachments
returnsRes(entity) == entity # "attachment"

\* prev_cursor that hands back the id as the handler received it
prevCursorRaw(cursor) == cursor

\* if (cursor) prev_cursor = Buffer.from(cursor).toString('base64'), else null
prevCursor(cursor) == IF cursor # "" THEN Base64(cursor) ELSE ""

\* A list handler up to the page (account.service.ts:120-167): the cursor
\* check, the page query, next_cursor, the extra row dropped, prev_cursor
listFetch(db, table, a) ==
  IF a.cursor # "" /\ ~isCursorPresent(table, a.connection_id, a.cursor)
  THEN [ err |-> ErrCursor, db |-> db, page |-> <<>>, prev_cursor |-> "",
         next_cursor |-> "" ]
  ELSE
  LET rows == findMany(table, a.connection_id, a.cursor, pageTake(a.limit))
  IN [ err |-> "", db |-> [db EXCEPT !.queries = @ + 1],
       page |-> IF Len(rows) = a.limit + 1 THEN SubSeq(rows, 1, Len(rows) - 1)
                ELSE rows,
       prev_cursor |-> prevCursor(a.cursor),
       next_cursor |-> nextCursor(rows, a.limit) ]

\* an array filled in the order its promises settle: the k-th to settle goes
\* to the k-th place
promiseAllSlotBySettling(i, k) == k

\* Promise.all(array.map(async ...)): the value of the i-th promise goes to the
\* i-th place of the result, whenever it settles (as the k-th)
promiseAllSlot(i, k) == i

\* the mapper of the first Promise.all: the row with the overlay of its id
unifiedRecord(db, row, fmShape) ==
  [ id |-> row.id, created_at |-> row.created_at,
    field_mappings |-> [shape |-> fmShape, map |-> fieldMappingsMap(db, row.id)],
    remote_data |-> {} ]

\* the mapper of the second Promise.all: {...record, remote_data} with the
\* snapshot found for record.id
withRemoteData(db, record) ==
  [record EXCEPT !.remote_data = {r.data : r \in remoteDataFindFirst(db, record.id)}]

\* The body the five list handlers share, its lookups settling in page order.
\* fmShape is how the handler shapes field_mappings; withSnapshot is whether
\* the handler returns the snapshot-enriched array.
listRecords(db, table, entity, a, fmShape, withSnapshot) ==
  LET t0 == [ err |-> "", db |-> db, data |-> <<>>, prev_cursor |-> "",
              next_cursor |-> "" ]
      fetched == listFetch(db, table, a)
  IN
  IF fetched.err # "" THEN [t0 EXCEPT !.err = fetched.err]
  ELSE
  LET page == fetched.page
      db1 == fetched.db
      unified == [i \in 1..Len(page) |-> unifiedRecord(db, page[i], fmShape)]
      res == [i \in 1..Len(page) |-> withRemoteData(db, unified[i])]
  IN
  IF a.remote_data /\ \E i \in 1..Len(page) : remoteDataFindFirst(db, page[i].id) = {}
  THEN \* JSON.parse(resp.data) with resp null
       [t0 EXCEPT !.err = ErrTypeError, !.db = db1]
  ELSE
  LET ev == pullEvent(db1, a, entity, page)
  IN [ err |-> "", db |-> ev.db,
       data |-> IF a.remote_data /\ withSnapshot THEN res ELSE unified,
       prev_cursor |-> fetched.prev_cursor, next_cursor |-> fetched.next_cursor ]

getAccounts(db, a) ==
  listRecords(db, tcg_accounts, "account", a, fmShapeOf("account"), returnsRes("account"))
getContacts(db, a) ==
  listRecords(db, tcg_contacts, "contact", a, fmShapeOf("contact"), returnsRes("contact"))
getUsers(db, a) ==
  listRecords(db, tcg_users, "user", a, fmShapeOf("user"), returnsRes("user"))
getTeams(db, a) ==
  listRecords(db, tcg_teams, "team", a, fmShapeOf("team"), returnsRes("team"))
getAttachments(db, a) ==
  listRecords(db, db.attachments, "attachment", a, fmShapeOf("attachment"),
              returnsRes("attachment"))

\* ---------------------------------------------- the single-record readers
\* Error(`Team with id ${id_ticketing_team} not found`)
ErrTeamNotFound(id) == "Team with id " \o id \o " not found"

\* The body the single-record handlers of accounts, contacts, users and teams
\* share: findUnique by id alone, the overlay, the snapshot on request, one
\* pull event. errAbsent is what the handler throws when findUnique returns
\* null: its own error where it has a check that throws, else the TypeError of
\* the first property read of null.
getRecord(db, table, entity, a, errAbsent) ==
  LET found == {r \in table : r.id = a.id}
      snap == remoteDataFindFirst(db, a.id)
      none == [id |-> ""]
  IN IF found = {} THEN [err |-> errAbsent, db |-> db, res |-> none]
     ELSE IF a.remote_data /\ snap = {}
     THEN \* JSON.parse(resp.data) with resp null
          [err |-> ErrTypeError, db |-> db, res |-> none]
     ELSE LET rec == CHOOSE r \in found : TRUE
              res == [ id |-> rec.id, created_at |-> rec.created_at,
                       field_mappings |-> [ shape |-> "object",
                                            map |-> fieldMappingsMap(db, rec.id) ],
                       remote_data |-> IF a.remote_data
                                       THEN {r.data : r \in snap} ELSE {} ]
              ev == eventsCreate(db, a.connection_id, "ticketing." \o entity \o ".pull",
                                 "success", a.integrationId, a.linkedUserId)
          IN [err |-> "", db |-> ev.db, res |-> res]

\* if (!account) only logs a warning
getAccount(db, a) == getRecord(db, tcg_accounts, "account", a, ErrTypeError)
\* if (!contact) only logs a warning
getContact(db, a) == getRecord(db, tcg_contacts, "contact", a, ErrTypeError)
getUser(db, a) == getRecord(db, tcg_users, "user", a, ErrUserUndefined)
getTeam(db, a) == getRecord(db, tcg_teams, "team", a, ErrTeamNotFound(a.id))

\* the table behind an endpoint
TableOf(entity) ==
  CASE entity = "account" -> tcg_accounts
    [] entity = "contact" -> tcg_contacts
    [] entity = "user" -> tcg_users
    [] entity = "team" -> tcg_teams
    [] OTHER -> tcg_attachments

\* The ids a cursor token of a caller may encode: the ids of the table, of any
\* connection, and one id that was never created.
CursorIds(entity) == {r.id : r \in TableOf(entity)} \cup {"no-such-id"}

\* The query DTO's cursor transform: the id a base64 token encodes
DecodeCursor(entity, token) ==
  IF token = "" THEN "" ELSE CHOOSE id \in CursorIds(entity) : Base64(id) = token

\* ----------------------------------------------------- calls and inputs
Row(id, connection_id, created_at) ==
  [id |-> id, id_connection |-> connection_id, created_at |-> created_at]

AttachmentRow(id, file_name, connection_id, at) ==
  [ id |-> id, file_name |-> file_name, id_connection |-> connection_id,
    uploader |-> "lu1", created_at |-> at, modified_at |-> at ]

ById(id) == [kind |-> "id", id |-> id, file_name |-> ""]
Inline(file_name) == [kind |-> "inline", id |-> "", file_name |-> file_name]

\* all sequences over S of length at most n
SeqsUpTo(S, n) == UNION {[1..k -> S] : k \in 0..n}

\* A well-formed addTicket call on connection c1: every reference exists.
BaseTicketData ==
  [ account_id |-> "acc-1", contact_id |-> "con-1", assigned_to |-> <<"usr-1">>,
    attachments |-> <<>>, has_field_mappings |-> FALSE, field_mappings |-> {} ]

BaseConnector == [throws |-> FALSE, statusCode |-> Created, id |-> "rt-1", name |-> "Bug"]

BaseTicketCall ==
  [ data |-> BaseTicketData, connection_id |-> "c1", integrationId |-> "zendesk",
    linkedUserId |-> "lu1", project_id |-> "p1", remote_data |-> FALSE,
    connector |-> BaseConnector, ingestThrows |-> "", webhookThrows |-> FALSE ]

\* the well-formed call with one inline attachment payload
InlineTicketCall == [BaseTicketCall EXCEPT !.data.attachments = <<Inline("f2")>>]

\* The addTicket calls a behaviour draws from: the well-formed call on every
\* connection and remote id, the well-formed call with one argument changed, and the call
\* with an inline attachment that fails after the attachments step.
TicketCalls ==
  {[BaseTicketCall EXCEPT !.connection_id = c, !.connector.id = r] :
      c \in Connections, r \in RemoteIds}
  \cup {[BaseTicketCall EXCEPT !.data.account_id = x] : x \in {"", "acc-2", "acc-x"}}
  \cup {[BaseTicketCall EXCEPT !.data.contact_id = x] : x \in {"", "con-x"}}
  \cup {[BaseTicketCall EXCEPT !.data.assigned_to = x] :
          x \in SeqsUpTo({"usr-1", "usr-x"}, MaxAssignees)}
  \cup {[BaseTicketCall EXCEPT !.data.attachments = x] :
          x \in { <<ById("att-1")>>, <<ById("att-x")>>, <<Inline("f2")>>,
                  <<ById("att-1"), ById("att-x")>>,
                  <<Inline("f2"), ById("att-1")>>, <<ById("att-1"), Inline("f2")>> }}
  \cup {[BaseTicketCall EXCEPT !.data.has_field_mappings = TRUE,
           !.data.field_mappings = x] :
          x \in {{}, {[slug |-> "priority_custom", data |-> "high"]}}}
  \cup {[BaseTicketCall EXCEPT !.linkedUserId = "lu_ghost"]}
  \cup {[BaseTicketCall EXCEPT !.integrationId = "nope"]}
  \cup {[BaseTicketCall EXCEPT !.remote_data = TRUE]}
  \cup {[BaseTicketCall EXCEPT !.connector.throws = TRUE]}
  \cup {[BaseTicketCall EXCEPT !.connector.statusCode = x] : x \in {200, 400}}
  \cup {[BaseTicketCall EXCEPT !.ingestThrows = x] :
          x \in {"processFieldMappings", "processRemoteData"}}
  \cup {[BaseTicketCall EXCEPT !.webhookThrows = TRUE]}
  \cup {[InlineTicketCall EXCEPT !.integrationId = "nope"]}
  \cup {[InlineTicketCall EXCEPT !.connector.throws = TRUE]}
  \cup {[InlineTicketCall EXCEPT !.ingestThrows = "processFieldMappings"]}

BaseAttachmentCall ==
  [ data |-> [file_name |-> "f1"], connection_id |-> "c1",
    integrationId |-> "zendesk", linkedUserId |-> "lu1", project_id |-> "p1",
    remote_data |-> FALSE, webhookThrows |-> FALSE ]

AttachmentCalls ==
  {[BaseAttachmentCall EXCEPT !.connection_id = c, !.data.file_name = f] :
      c \in Connections, f \in FileNames}
  \cup {[BaseAttachmentCall EXCEPT !.linkedUserId = "lu_ghost"]}
  \cup {[BaseAttachmentCall EXCEPT !.remote_data = TRUE]}
  \cup {[BaseAttachmentCall EXCEPT !.webhookThrows = TRUE]}

\* what `last` keeps of a call: its name, its arguments and its trace
Returned(op, a, t) ==
  [ op |-> op, args |-> a, err |-> t.err, existing |-> t.existing,
    upsertId |-> t.upsertId, upserted |-> t.upserted, res |-> t.res,
    event |-> t.event, desunifyRules |-> t.desunifyRules,
    unifyRules |-> t.unifyRules, attachments |-> t.attachments, log |-> t.db.log,
    desunified |-> t.desunified, unified |-> t.unified ]

\* the two cycles of the concurrent specification
Cycles == {"A", "B"}

\* a cycle that has not started
NoCycle ==
  [ pc |-> "idle", a |-> <<>>, t |-> <<>>, resp |-> <<>>, target |-> <<>>,
    seen |-> {}, err |-> "" ]

\* prisma.connections: the connections of the store and their providers
ConnectionRows ==
  { [id_connection |-> "c1", provider_slug |-> "zendesk"],
    [id_connection |-> "c2", provider_slug |-> "front"] }

\* no list call in flight
NoEnrich ==
  [ pc |-> "idle", a |-> <<>>, page |-> <<>>, prev_cursor |-> "", next_cursor |-> "",
    unified |-> <<>>, res |-> <<>>, overlaySettled |-> <<>>,
    snapshotSettled |-> <<>>, err |-> "" ]

NoIter ==
  [ active |-> FALSE, done |-> FALSE, failed |-> FALSE, collected |-> <<>>,
    next |-> "", limit |-> 0, began |-> {} ]

\* ------------------------------------------------ the push specification
Init ==
  /\ linked_users = {[id_linked_user |-> "lu1", id_project |-> "p1"]}
  /\ tcg_accounts = {Row("acc-1", "c1", 1), Row("acc-2", "c2", 2)}
  /\ tcg_contacts = {Row("con-1", "c1", 1)}
  /\ tcg_users = {Row("usr-1", "c1", 1), Row("usr-2", "c2", 2)}
  /\ tcg_teams = {Row("team-1", "c1", 1)}
  /\ tcg_attachments = {AttachmentRow("att-1", "f1", "c1", 1)}
  /\ tcg_tickets = {}
  /\ value = {}
  /\ remote_data = {}
  /\ events = <<>>
  /\ webhooks = <<>>
  /\ connectorCalls = 0
  /\ pageQueries = 0
  /\ now = 10
  /\ nextId = 1
  /\ ops = 0
  /\ last = [op |-> "none", err |-> ""]
  /\ iter = NoIter
  /\ session = [entity |-> "ticket", connection_id |-> "c1", remote_data |-> FALSE]
  /\ inflight = [p \in Cycles |-> NoCycle]
  /\ enrich = NoEnrich
  /\ connections = ConnectionRows
  /\ zendesk = <<>>

AddTicket ==
  /\ ops < MaxOps
  /\ \E a \in TicketCalls :
       LET t == addTicket(DB, a)
       IN /\ Commit(t.db)
          /\ last' = Returned("addTicket", a, t)
  /\ ops' = ops + 1
  /\ UNCHANGED <<staticTables, zendesk, iter, session, inflight, enrich>>

AddAttachment ==
  /\ ops < MaxOps
  /\ \E a \in AttachmentCalls :
       LET t == addAttachment(DB, a)
       IN /\ Commit(t.db)
          /\ last' = Returned("addAttachment", a, t)
  /\ ops' = ops + 1
  /\ UNCHANGED <<staticTables, zendesk, iter, session, inflight, enrich>>

Next == AddTicket \/ AddAttachment

Spec == Init /\ [][Next]_vars

\* ------------------------------------------ the concurrent specification
\* Two addTicket cycles of well-formed calls run at once. A cycle yields at
\* the await of saveOrUpdateTicket's findFirst: everything up to the lookup is
\* one step, the write and the rest of the cycle the next.
RaceCalls ==
  {[BaseTicketCall EXCEPT !.connection_id = c, !.connector.id = r] :
      c \in Connections, r \in RemoteIds}

RaceLookup(p) ==
  /\ inflight[p].pc = "idle"
  /\ \E a \in RaceCalls :
       LET head == addTicketHead(DB, a)
           seen == findFirstTicket(head.t.db, head.target, a.connection_id)
       IN /\ Commit(head.t.db)
          /\ inflight' = [inflight EXCEPT ![p] =
                [ pc |-> IF head.t.err = "" THEN "looked" ELSE "done", a |-> a,
                  t |-> [head.t EXCEPT !.db = <<>>], resp |-> head.resp,
                  target |-> head.target, seen |-> seen, err |-> head.t.err ]]
  /\ UNCHANGED <<staticTables, zendesk, iter, session, ops, last, enrich>>

\* The store may or may not hold the unique constraint of spec 3: both are
\* outcomes of the create of a key that was taken since the lookup.
RaceWrite(p) ==
  /\ inflight[p].pc = "looked"
  /\ \E constrained \in BOOLEAN :
       LET c == inflight[p]
           saved == writeTicket(DB, c.target, c.a.connection_id, c.seen, constrained)
           t == addTicketTail([c.t EXCEPT !.db = DB], c.a, c.resp, c.target, saved)
       IN /\ Commit(t.db)
          /\ last' = Returned("addTicket", c.a, t)
          /\ inflight' = [inflight EXCEPT ![p].pc = "done", ![p].err = t.err]
  /\ ops' = ops + 1
  /\ UNCHANGED <<staticTables, zendesk, iter, session, enrich>>

CycleA == RaceLookup("A") \/ RaceWrite("A")
CycleB == RaceLookup("B") \/ RaceWrite("B")

NextRace == CycleA \/ CycleB

SpecRace == Init /\ [][NextRace]_vars

\* ------------------------------------------------ the read specification
\* the id of the i-th record created in an entity's table
RecId(entity, i) == entity \o "-" \o ToString(i)

\* An entity's table laid out by `layout`: its i-th record, created at time i,
\* belongs to connection layout[i].
TableFor(entity, layout) ==
  IF entity = "attachment"
  THEN {AttachmentRow(RecId(entity, i), "f" \o ToString(i), layout[i], i) :
          i \in 1..Len(layout)}
  ELSE {Row(RecId(entity, i), layout[i], i) : i \in 1..Len(layout)}

\* which records have a stored snapshot
SnapshotModes == {"all", "even"}

HasSnapshot(mode, i) == mode = "all" \/ (mode = "even" /\ i % 2 = 0)

\* The layouts a behaviour starts from: up to MaxRecords records, at most one
\* of them of the other connection, at any place in the creation order.
Layouts ==
  {l \in SeqsUpTo(Connections, MaxRecords) :
     Cardinality({i \in 1..Len(l) : l[i] # "c1"}) <= 1}

InitRead ==
  \E layout \in Layouts, mode \in SnapshotModes,
     entity \in Entities, rd \in BOOLEAN :
    /\ linked_users = {[id_linked_user |-> "lu1", id_project |-> "p1"]}
    /\ tcg_accounts = TableFor("account", layout)
    /\ tcg_contacts = TableFor("contact", layout)
    /\ tcg_users = TableFor("user", layout)
    /\ tcg_teams = TableFor("team", layout)
    /\ tcg_attachments = TableFor("attachment", layout)
    /\ tcg_tickets = {}
    /\ value = {[owner |-> RecId(e, 1), slug |-> "priority_custom", data |-> "high"] :
                  e \in {x \in Entities : Len(layout) > 0}}
    /\ remote_data = {[owner |-> RecId(e, i), data |-> "raw-" \o ToString(i)] :
                        e \in Entities,
                        i \in {j \in 1..Len(layout) : HasSnapshot(mode, j)}}
    /\ events = <<>>
    /\ webhooks = <<>>
    /\ connectorCalls = 0
    /\ pageQueries = 0
    /\ now = MaxRecords + 10
    /\ nextId = 1
    /\ ops = 0
    /\ last = [op |-> "none", err |-> ""]
    /\ iter = NoIter
    /\ session = [entity |-> entity, connection_id |-> "c1", remote_data |-> rd]
    /\ inflight = [p \in Cycles |-> NoCycle]
    /\ enrich = NoEnrich
    /\ connections = ConnectionRows
    /\ zendesk = <<>>

\* the arguments of a list call of the session, the token decoded
ListCalls ==
  { [ connection_id |-> session.connection_id, project_id |-> "p1",
      integrationId |-> "zendesk", linkedUserId |-> "lu1", limit |-> k,
      remote_data |-> rd, token |-> tk, cursor |-> DecodeCursor(session.entity, tk) ] :
      k \in 0..MaxLimit, rd \in {session.remote_data},
      tk \in {""} \cup {Base64(id) : id \in CursorIds(session.entity)} }

PageIds(data) == [i \in 1..Len(data) |-> data[i].id]

\* The chain a client follows: a call without a cursor starts one, a call
\* whose token is the next_cursor last returned continues it, any other call
\* abandons it.  `began` keeps the ids the connection held when the chain
\* started and `limit` the limit of its last call.
Follow(a, t) ==
  LET starts == a.token = ""
      continues == iter.active /\ a.token # "" /\ a.token = iter.next
      before == IF starts THEN <<>> ELSE iter.collected
      began == IF starts
               THEN {r.id : r \in {x \in TableOf(session.entity) :
                                     x.id_connection = a.connection_id}}
               ELSE iter.began
  IN IF ~starts /\ ~continues THEN NoIter
     ELSE IF t.err # ""
     THEN [ active |-> FALSE, done |-> FALSE, failed |-> TRUE, collected |-> before,
            next |-> "", limit |-> a.limit, began |-> began ]
     ELSE [ active |-> t.next_cursor # "", done |-> t.next_cursor = "",
            failed |-> FALSE, collected |-> before \o PageIds(t.data),
            next |-> t.next_cursor, limit |-> a.limit, began |-> began ]

ListReturned(a, t) ==
  [ op |-> "list", entity |-> session.entity, args |-> a, err |-> t.err,
    data |-> t.data, prev_cursor |-> t.prev_cursor, next_cursor |-> t.next_cursor,
    continued |-> iter.active /\ a.token # "" /\ a.token = iter.next ]

List(entity, t, a, maxCalls) ==
  /\ ops < maxCalls
  /\ session.entity = entity
  /\ Commit(t.db)
  /\ last' = ListReturned(a, t)
  /\ iter' = Follow(a, t)
  /\ ops' = ops + 1
  /\ UNCHANGED <<staticTables, zendesk, session, inflight, enrich>>

GetAccounts == \E a \in ListCalls : List("account", getAccounts(DB, a), a, MaxCalls)
GetContacts == \E a \in ListCalls : List("contact", getContacts(DB, a), a, MaxCalls)
GetUsers == \E a \in ListCalls : List("user", getUsers(DB, a), a, MaxCalls)
GetTeams == \E a \in ListCalls : List("team", getTeams(DB, a), a, MaxCalls)
GetAttachments ==
  \E a \in ListCalls : List("attachment", getAttachments(DB, a), a, MaxCalls)

NextRead == GetAccounts \/ GetContacts \/ GetUsers \/ GetTeams \/ GetAttachments

\* any list calls of one client, one after the other
SpecRead == InitRead /\ [][NextRead]_vars

\* ------------------------------------------ the single-record specification
\* the arguments of a get call of the session: an id of the table, of any
\* connection, or an id never created
GetCalls ==
  { [ id |-> i, connection_id |-> session.connection_id, project_id |-> "p1",
      integrationId |-> "zendesk", linkedUserId |-> "lu1", remote_data |-> rd ] :
      i \in CursorIds(session.entity), rd \in {session.remote_data} }

Get(entity, t, a) ==
  /\ ops < MaxGets
  /\ session.entity = entity
  /\ Commit(t.db)
  /\ last' = [ op |-> "get", entity |-> entity, args |-> a, err |-> t.err,
               res |-> t.res ]
  /\ ops' = ops + 1
  /\ UNCHANGED <<staticTables, zendesk, session, iter, inflight, enrich>>

GetAccount == \E a \in GetCalls : Get("account", getAccount(DB, a), a)
GetContact == \E a \in GetCalls : Get("contact", getContact(DB, a), a)
GetUser == \E a \in GetCalls : Get("user", getUser(DB, a), a)
GetTeam == \E a \in GetCalls : Get("team", getTeam(DB, a), a)
GetAttachment ==
  \E a \in GetCalls :
     Get("attachment", getAttachment(DB, a.id, a.linkedUserId, a.integrationId,
                                     a.connection_id, a.remote_data), a)

NextGet == GetAccount \/ GetContact \/ GetUser \/ GetTeam \/ GetAttachment

SpecGet == InitRead /\ [][NextGet]_vars

\* --------------------------------------------- the pagination specification
\* The calls of a client that pages through its connection: a first call
\* without a cursor, then calls that hand back the next_cursor last returned,
\* with the limit and the snapshot flag of the first call.
PageCalls ==
  IF ops = 0 THEN {a \in ListCalls : a.token = ""}
  ELSE IF iter.active
  THEN {a \in ListCalls : a.token = iter.next /\ a.limit = last.args.limit
                          /\ a.remote_data = last.args.remote_data}
  ELSE {}

PageAccounts == \E a \in PageCalls : List("account", getAccounts(DB, a), a, MaxPages)
PageContacts == \E a \in PageCalls : List("contact", getContacts(DB, a), a, MaxPages)
PageUsers == \E a \in PageCalls : List("user", getUsers(DB, a), a, MaxPages)
PageTeams == \E a \in PageCalls : List("team", getTeams(DB, a), a, MaxPages)
PageAttachments ==
  \E a \in PageCalls : List("attachment", getAttachments(DB, a), a, MaxPages)

NextPages == PageAccounts \/ PageContacts \/ PageUsers \/ PageTeams \/ PageAttachments

SpecPages == InitRead /\ [][NextPages]_vars

\* ------------------------------------------- the interleaved specification
\* One client pages through the attachments of its connection while
\* addAttachment calls arrive between its pages: each call runs to its end
\* before the next starts.
InitInterleaved == InitRead /\ session.entity = "attachment"

\* the list calls of the paging client: the first without a cursor, the
\* following with the next_cursor last returned and the limit of the chain
InterleavedPageCalls ==
  IF iter = NoIter THEN {a \in ListCalls : a.token = ""}
  ELSE IF iter.active
  THEN {a \in ListCalls : a.token = iter.next /\ a.limit = iter.limit}
  ELSE {}

\* the addAttachment calls that arrive: a file name the connection may hold
\* already (an update) and one it does not hold at first (a create)
InterleavedWrites ==
  {[BaseAttachmentCall EXCEPT !.connection_id = session.connection_id,
                              !.data.file_name = f] : f \in {"f1", "g1"}}

GetAttachmentsPage ==
  \E a \in InterleavedPageCalls :
     List("attachment", getAttachments(DB, a), a, MaxInterleaved)

\* addAttachment while the iteration has not ended
AddAttachmentBetweenPages ==
  /\ ops < MaxInterleaved
  /\ ~iter.done /\ ~iter.failed
  /\ \E a \in InterleavedWrites :
       LET t == addAttachment(DB, a)
       IN /\ Commit(t.db)
          /\ last' = Returned("addAttachment", a, t)
  /\ ops' = ops + 1
  /\ UNCHANGED <<staticTables, zendesk, iter, session, inflight, enrich>>

NextInterleaved == GetAttachmentsPage \/ AddAttachmentBetweenPages

SpecInterleaved == InitInterleaved /\ [][NextInterleaved]_vars

\* ------------------------------------------------ the webhook specification
ManagedWebhooks == {"mw-1", "mw-2"}

\* the calls of createExternalWebhook: a connection of every provider, and one
\* that does not exist
CreateWebhookCalls ==
  { [id_connection |-> c, data |-> d, mw_ids |-> <<m>>] :
      c \in Connections \cup {"c-x"}, d \in {"d1", "d2"}, m \in ManagedWebhooks }

\* the calls of handleExternalIncomingWebhook
IncomingWebhookCalls ==
  { [connector_name |-> n, id_managed_webhook |-> m, payload |-> pl,
     headers |-> "h"] :
      n \in {"zendesk", "front", "nope"}, m \in ManagedWebhooks, pl \in {"p1", "p2"} }

HookCall(op, a, t) ==
  /\ ops < MaxOps
  /\ zendesk' = t.calls
  /\ last' = [op |-> op, args |-> a, err |-> t.err, res |-> t.res]
  /\ ops' = ops + 1
  /\ UNCHANGED <<staticTables, tcg_attachments, tcg_tickets, value, remote_data,
                 events, webhooks, connectorCalls, pageQueries, now, nextId, iter,
                 session, inflight, enrich>>

CreateExternalWebhook ==
  \E a \in CreateWebhookCalls :
     HookCall("createExternalWebhook", a,
              createExternalWebhook(zendesk, a.id_connection, a.data, a.mw_ids))

HandleExternalIncomingWebhook ==
  \E a \in IncomingWebhookCalls :
     HookCall("handleExternalIncomingWebhook", a,
              handleExternalIncomingWebhook(zendesk, a))

NextWebhook == CreateExternalWebhook \/ HandleExternalIncomingWebhook

SpecWebhook == Init /\ [][NextWebhook]_vars

\* --------------------------------------------- the enrichment specification
\* A list call of a paging client run one await at a time: the handler up to
\* the page, then the overlay lookups of the first Promise.all settling in any
\* order, then (snapshot requested) the snapshot lookups of the second settling
\* in any order, then the pull event and the return.  The store is read as it
\* is when a lookup settles; no list handler writes before its event.
Unsettled(n, settled) == (1..n) \ {settled[k] : k \in 1..Len(settled)}

\* where the call goes once the first Promise.all has resolved
AfterOverlay(a, n) == IF a.remote_data /\ n > 0 THEN "snapshot" ELSE "event"

EnrichStart ==
  /\ enrich.pc = "idle"
  /\ ops < MaxPages
  /\ \E a \in PageCalls :
       LET fetched == listFetch(DB, TableOf(session.entity), a)
           n == Len(fetched.page)
       IN /\ pageQueries' = fetched.db.queries
          /\ enrich' =
               [ pc |-> IF fetched.err # "" THEN "failed"
                        ELSE IF n > 0 THEN "overlay" ELSE AfterOverlay(a, n),
                 a |-> a, page |-> fetched.page,
                 prev_cursor |-> fetched.prev_cursor,
                 next_cursor |-> fetched.next_cursor,
                 unified |-> [i \in 1..n |-> [id |-> ""]],
                 res |-> [i \in 1..n |-> [id |-> ""]],
                 overlaySettled |-> <<>>, snapshotSettled |-> <<>>,
                 err |-> fetched.err ]
  /\ UNCHANGED <<staticTables, zendesk, tcg_attachments, tcg_tickets, value, remote_data,
                 events, webhooks, connectorCalls, now, nextId, ops, last, iter,
                 session, inflight>>

\* the overlay lookup of the i-th row of the page settles
OverlaySettles ==
  /\ enrich.pc = "overlay"
  /\ \E i \in Unsettled(Len(enrich.page), enrich.overlaySettled) :
       LET k == Len(enrich.overlaySettled) + 1
           record == unifiedRecord(DB, enrich.page[i], fmShapeOf(session.entity))
       IN enrich' = [enrich EXCEPT
             !.unified[promiseAllSlot(i, k)] = record,
             !.overlaySettled = Append(@, i),
             !.pc = IF k = Len(enrich.page)
                    THEN AfterOverlay(enrich.a, Len(enrich.page)) ELSE "overlay"]
  /\ UNCHANGED <<staticTables, zendesk, tcg_attachments, tcg_tickets, value, remote_data,
                 events, webhooks, connectorCalls, pageQueries, now, nextId, ops,
                 last, iter, session, inflight>>

\* the snapshot lookup of the i-th record of res settles; JSON.parse(resp.data)
\* with resp null rejects the Promise.all
SnapshotSettles ==
  /\ enrich.pc = "snapshot"
  /\ \E i \in Unsettled(Len(enrich.page), enrich.snapshotSettled) :
       LET k == Len(enrich.snapshotSettled) + 1
           record == enrich.unified[i]
       IN IF remoteDataFindFirst(DB, record.id) = {}
          THEN enrich' = [enrich EXCEPT !.pc = "failed", !.err = ErrTypeError,
                                        !.snapshotSettled = Append(@, i)]
          ELSE enrich' = [enrich EXCEPT
                 !.res[promiseAllSlot(i, k)] = withRemoteData(DB, record),
                 !.snapshotSettled = Append(@, i),
                 !.pc = IF k = Len(enrich.page) THEN "event" ELSE "snapshot"]
  /\ UNCHANGED <<staticTables, zendesk, tcg_attachments, tcg_tickets, value, remote_data,
                 events, webhooks, connectorCalls, pageQueries, now, nextId, ops,
                 last, iter, session, inflight>>

\* the pull event and the return, or the throw
EnrichReturn ==
  /\ enrich.pc \in {"event", "failed"}
  /\ LET a == enrich.a
         ev == pullEvent(DB, a, session.entity, enrich.page)
         t == IF enrich.pc = "failed"
              THEN [ err |-> enrich.err, db |-> DB, data |-> <<>>,
                     prev_cursor |-> "", next_cursor |-> "" ]
              ELSE [ err |-> "", db |-> ev.db,
                     data |-> IF a.remote_data /\ returnsRes(session.entity)
                              THEN enrich.res ELSE enrich.unified,
                     prev_cursor |-> enrich.prev_cursor,
                     next_cursor |-> enrich.next_cursor ]
     IN /\ Commit(t.db)
        /\ last' = ListReturned(a, t)
        /\ iter' = Follow(a, t)
  /\ ops' = ops + 1
  /\ enrich' = [enrich EXCEPT !.pc = "idle"]
  /\ UNCHANGED <<staticTables, zendesk, session, inflight>>

NextEnrich == EnrichStart \/ OverlaySettles \/ SnapshotSettles \/ EnrichReturn

SpecEnrich == InitRead /\ [][NextEnrich]_vars

\* ------------------------------------------------------------- push claims
TicketKey(t) == <<t.remote_id, t.id_connection>>
CallKey(a) == <<a.connector.id, a.connection_id>>
TicketsOf(tickets, k) == {t \in tickets : TicketKey(t) = k}

\* the step is one call of op
Called(op) == ops' = ops + 1 /\ last'.op = op

LinkedUserExists(a) == \E u \in linked_users : u.id_linked_user = a.linkedUserId

\* a reference of the call names a record that exists nowhere
RefMissing(a) ==
  \/ a.data.account_id # "" /\ a.data.account_id \notin {r.id : r \in tcg_accounts}
  \/ a.data.contact_id # "" /\ a.data.contact_id \notin {r.id : r \in tcg_contacts}
  \/ \E i \in 1..Len(a.data.assigned_to) :
        a.data.assigned_to[i] \notin {r.id : r \in tcg_users}

ReferenceNotFound == {ErrAccount, ErrContact, ErrAssignee, ErrAttachment}

\* C1: addTicket run twice in sequence with the same arguments and the same
\* connector response, the first run having succeeded: the second succeeds
\* too, exactly one ticket holds the (remote_id, connection_id), its
\* created_at is what the first run left and its modified_at is not earlier.
C1_PushTwiceStep ==
  (last.op = "addTicket" /\ last.err = "" /\ Called("addTicket")
     /\ last'.args = last.args)
  => /\ last'.err = ""
     /\ Cardinality(TicketsOf(tcg_tickets', CallKey(last.args))) = 1
     /\ \A t \in TicketsOf(tcg_tickets, CallKey(last.args)) :
          \A u \in TicketsOf(tcg_tickets', CallKey(last.args)) :
             u.created_at = t.created_at /\ u.modified_at >= t.modified_at

C1_PushTwice == [][C1_PushTwiceStep]_vars

\* C2: the internal id of a ticket never changes: every ticket of the store
\* is still there under the same id and key after any call, and the id
\* saveOrUpdateTicket returned names a ticket of the store after the call.
C2_IdStableStep ==
  /\ \A t \in tcg_tickets : \E u \in tcg_tickets' :
        u.id_tcg_ticket = t.id_tcg_ticket /\ TicketKey(u) = TicketKey(t)
  /\ (Called("addTicket") /\ last'.upserted)
       => \E u \in tcg_tickets' : u.id_tcg_ticket = last'.upsertId

C2_IdStable == [][C2_IdStableStep]_vars

\* C3: no two tickets share a (remote_id, connection_id); a cycle that reaches
\* the upsert adds one ticket when none has the key and otherwise rewrites the
\* one that has it, every other ticket is left as it was, and a cycle that does
\* not reach the upsert leaves the tickets alone.
UniqueKeys(tickets) ==
  \A t, u \in tickets : TicketKey(t) = TicketKey(u) => t = u

C3_UpsertStep ==
  IF Called("addTicket") /\ last'.upserted
  THEN LET k == CallKey(last'.args)
       IN /\ {t \in tcg_tickets : TicketKey(t) # k}
               = {t \in tcg_tickets' : TicketKey(t) # k}
          /\ Cardinality(TicketsOf(tcg_tickets', k)) = 1
          /\ Cardinality(tcg_tickets') =
               Cardinality(tcg_tickets) + (IF TicketsOf(tcg_tickets, k) = {} THEN 1 ELSE 0)
          /\ (last'.existing # "") = (TicketsOf(tcg_tickets, k) # {})
  ELSE tcg_tickets' = tcg_tickets

C3_UniqueKey == [](UniqueKeys(tcg_tickets)) /\ [][C3_UpsertStep]_vars

C3_Witness ==
  /\ last.op = "addTicket" /\ last.upserted /\ last.existing # ""
  /\ Cardinality(tcg_tickets) = 1

\* C8: an addTicket call of an existing linked user whose account_id,
\* contact_id or any element of assigned_to names no record fails with a
\* reference-not-found error; the connector is not called, and no ticket,
\* audit event or webhook dispatch is produced.
C8_ReferenceStep ==
  (Called("addTicket") /\ LinkedUserExists(last'.args) /\ RefMissing(last'.args))
  => /\ last'.err \in ReferenceNotFound
     /\ connectorCalls' = connectorCalls
     /\ tcg_tickets' = tcg_tickets
     /\ events' = events
     /\ webhooks' = webhooks

C8_ReferenceValidation == [][C8_ReferenceStep]_vars

C8_Witness ==
  /\ last.op = "addTicket" /\ last.err = ErrAssignee
  /\ last.args.data.assigned_to = <<"usr-1", "usr-x">>

\* C9: addTicket and addAttachment called with a linked user id that does not
\* exist fail with the linked-user-not-found error and leave tickets,
\* attachments, overlay, snapshots, audit events, connector and webhook
\* notifier untouched.
C9_TenantStep ==
  ((Called("addTicket") \/ Called("addAttachment")) /\ ~LinkedUserExists(last'.args))
  => /\ last'.err = ErrLinkedUser
     /\ UNCHANGED <<tcg_tickets, tcg_attachments, value, remote_data, events,
                    connectorCalls, webhooks>>

C9_TenantFirst == [][C9_TenantStep]_vars

C9_Witness ==
  /\ last.op \in {"addTicket", "addAttachment"} /\ last.err = ErrLinkedUser
  /\ ops = MaxOps /\ tcg_tickets # {}

\* C10: an addTicket cycle that returns, on a connection holding no ticket
\* with the connector's id, leaves exactly one ticket with that remote_id on
\* the connection, appends exactly one audit event, of type
\* ticketing.ticket.push, and makes exactly one webhook dispatch, of type
\* ticketing.ticket.created, carrying that event's id.
C10_CreateStep ==
  (Called("addTicket") /\ last'.err = ""
     /\ TicketsOf(tcg_tickets, CallKey(last'.args)) = {})
  => /\ Cardinality(TicketsOf(tcg_tickets', CallKey(last'.args))) = 1
     /\ Len(events') = Len(events) + 1
     /\ SubSeq(events', 1, Len(events)) = events
     /\ events'[Len(events')].type = "ticketing.ticket.push"
     /\ Len(webhooks') = Len(webhooks) + 1
     /\ SubSeq(webhooks', 1, Len(webhooks)) = webhooks
     /\ webhooks'[Len(webhooks')].type = "ticketing.ticket.created"
     /\ webhooks'[Len(webhooks')].id_event = events'[Len(events')].id_event

C10_ScenarioA == [][C10_CreateStep]_vars

C10_Witness ==
  /\ last.op = "addTicket" /\ last.err = "" /\ last.existing = ""
  /\ last.args.connector.id = "rt-1" /\ Len(events) = 1 /\ Len(webhooks) = 1

\* ------------------------------------------------------------- read claims
\* the records of the session's connection behind the session's endpoint
ConnRecords ==
  {r \in TableOf(session.entity) : r.id_connection = session.connection_id}

CreatedAt(id) == (CHOOSE r \in TableOf(session.entity) : r.id = id).created_at

NoDuplicates(ids) == \A i, j \in 1..Len(ids) : ids[i] = ids[j] => i = j

\* ids names records of the connection, each once, oldest first, and no record
\* of the connection left out of ids is older than one in it
CreationPrefix(ids) ==
  /\ NoDuplicates(ids)
  /\ \A i \in 1..Len(ids) : ids[i] \in {r.id : r \in ConnRecords}
  /\ \A i, j \in 1..Len(ids) : i < j => CreatedAt(ids[i]) < CreatedAt(ids[j])
  /\ \A r \in ConnRecords :
       r.id \notin {ids[i] : i \in 1..Len(ids)}
       => \A i \in 1..Len(ids) : CreatedAt(ids[i]) < r.created_at

\* ids is r1..rN: every record of the connection, once, in creation order
AllInCreationOrder(ids) ==
  CreationPrefix(ids) /\ Len(ids) = Cardinality(ConnRecords)

\* a record of the page asked for has no stored snapshot
SnapshotMissing == \E r \in ConnRecords : remoteDataFindFirst(DB, r.id) = {}

\* C4: a client that starts a list call without a cursor and follows
\* next_cursor with the same limit k >= 1 collects, as long as next_cursor is
\* not null, k more records per call, the oldest not yet seen, each once; when
\* next_cursor is null it has collected every record of the connection once, in
\* creation order.  A call of the chain fails only when the snapshot is asked
\* for and a record has none.  Holds for all five list endpoints.
C4_Completeness ==
  last.op = "list" =>
    /\ iter.done => AllInCreationOrder(iter.collected)
    /\ (iter.active /\ last.args.limit >= 1)
         => /\ CreationPrefix(iter.collected)
            /\ Len(iter.collected) = ops * last.args.limit
            /\ Len(iter.collected) < Cardinality(ConnRecords)
    /\ iter.failed
         => last.args.remote_data /\ last.err = ErrTypeError /\ SnapshotMissing

C4_Witness ==
  /\ iter.done /\ ops = 3 /\ last.args.limit = 1
  /\ Len(iter.collected) = 3 /\ Cardinality(ConnRecords) = 3

\* C5: a list call handed the next_cursor token of the list call before it, on
\* the same connection and with any limit, does not fail with the
\* invalid-cursor error; when it returns, its page starts at the record the
\* token names: with limit >= 1 that record is the first of the page, and with
\* limit 0 the page is empty and next_cursor is the same token again.
C5_RoundTripStep ==
  (Called("list") /\ last'.continued)
  => /\ last.op = "list" /\ last.err = "" /\ last.next_cursor = last'.args.token
     /\ last'.args.connection_id = last.args.connection_id
     /\ last'.err # ErrCursor
     /\ (last'.err = "" /\ last'.args.limit >= 1)
          => /\ Len(last'.data) >= 1
             /\ Base64(last'.data[1].id) = last'.args.token
     /\ (last'.err = "" /\ last'.args.limit = 0)
          => last'.data = <<>> /\ last'.next_cursor = last'.args.token

Remaining(a) ==
  {r \in ConnRecords : a.cursor = "" \/ r.created_at >= CreatedAt(a.cursor)}

\* the place of r among rows, oldest first
Rank(r, rows) == 1 + Cardinality({x \in rows : x.created_at < r.created_at})

\* C6: a list call with limit >= 1 that returns: if more than limit records
\* of the connection lie at or after the start position, the page is the first
\* limit of them in creation order and next_cursor encodes the id of the
\* (limit+1)-th, which is not in the page; otherwise the page is all of them in
\* creation order and next_cursor is null.
C6_PageShape ==
  (last.op = "list" /\ last.err = "" /\ last.args.limit >= 1)
  => LET rem == Remaining(last.args)
         limit == last.args.limit
         page == last.data
     IN /\ \A i \in 1..Len(page) :
             \E r \in rem : r.id = page[i].id /\ Rank(r, rem) = i
        /\ IF Cardinality(rem) > limit
           THEN /\ Len(page) = limit
                /\ \E r \in rem : /\ Rank(r, rem) = limit + 1
                                  /\ last.next_cursor = Base64(r.id)
                                  /\ \A i \in 1..Len(page) : page[i].id # r.id
           ELSE /\ Len(page) = Cardinality(rem)
                /\ last.next_cursor = ""

C6_Witness ==
  /\ last.op = "list" /\ last.err = "" /\ last.args.limit = 2
  /\ last.args.cursor # "" /\ Len(last.data) = 2 /\ last.next_cursor # ""
  /\ ops = 2 /\ last.prev_cursor = Base64(last.args.cursor)

\* the cursor of the call names a record of the requested connection
CursorResolves(a) ==
  \E r \in TableOf(session.entity) :
     r.id = a.cursor /\ r.id_connection = a.connection_id

\* C7: a list call whose cursor names no record of the requested connection
\* (an id never created, or the id of a record of another connection) fails
\* with the invalid-cursor error; no page query has run, no record is
\* returned and no audit event is written.
C7_InvalidCursorStep ==
  (Called("list") /\ last'.args.cursor # "" /\ ~CursorResolves(last'.args))
  => /\ last'.err = ErrCursor
     /\ pageQueries' = pageQueries
     /\ last'.data = <<>>
     /\ events' = events

C7_CursorValidity == [][C7_InvalidCursorStep]_vars

C7_Witness ==
  /\ last.op = "list" /\ last.err = ErrCursor
  /\ \E r \in TableOf(session.entity) :
        r.id = last.args.cursor /\ r.id_connection # last.args.connection_id
  /\ pageQueries = 0 /\ events = <<>>

\* ------------------------------------------------------ more push claims
\* C11: the audit event an addTicket cycle writes is a ticketing.ticket.push
\* event whose status is success when the connector's statusCode is 201 and
\* fail for every other status code.
C11_StatusStep ==
  (Called("addTicket") /\ last'.event # "")
  => /\ Len(events') = Len(events) + 1
     /\ LET e == events'[Len(events')]
            code == last'.args.connector.statusCode
        IN /\ e.id_event = last'.event
           /\ e.type = "ticketing.ticket.push"
           /\ e.status \in {"success", "fail"}
           /\ (e.status = "success") <=> (code = Created)

C11_AuditStatus == [][C11_StatusStep]_vars

C11_Witness ==
  /\ last.op = "addTicket" /\ last.event # ""
  /\ last.args.connector.statusCode = 400
  /\ events[Len(events)].status = "fail" /\ tcg_tickets # {}

\* the last step dispatched a webhook and the dispatch threw
DispatchThrew ==
  /\ Len(webhooks') = Len(webhooks) + 1
  /\ webhooks'[Len(webhooks')].threw

\* C12: when the webhook dispatch of an addTicket or addAttachment cycle
\* throws, the call still returns the hydrated record, and the record and the
\* cycle's audit event are in the store.
C12_WebhookStep ==
  ((Called("addTicket") \/ Called("addAttachment")) /\ DispatchThrew)
  => /\ last'.err = ""
     /\ last'.res.id # ""
     /\ last'.res.id \in {t.id_tcg_ticket : t \in tcg_tickets'}
                           \cup {r.id : r \in tcg_attachments'}
     /\ \E i \in 1..Len(events') : events'[i].id_event = last'.event

C12_WebhookSwallowed == [][C12_WebhookStep]_vars

\* the call failed at one of the steps 1-8 of the cycle: before the upsert, in
\* it, or in the overlay or snapshot write after it
FailedBeforeReRead(l) == l.err # "" /\ (~l.upserted \/ l.err = ErrIngest)

\* C13: an addTicket call that fails at one of the steps 1-8, the overlay or
\* snapshot write after the upsert included, leaves the tickets, the overlay,
\* the snapshots and the audit events as they were before the call.
C13_AtomicStep ==
  (Called("addTicket") /\ FailedBeforeReRead(last'))
  => UNCHANGED <<tcg_tickets, value, remote_data, events>>

C13_FailedPushAtomic == [][C13_AtomicStep]_vars

\* C14: in every state reached by addTicket cycles, every overlay field and
\* every snapshot is keyed by the internal id of a ticket of the store.
C14_NoDangling ==
  LET ids == {t.id_tcg_ticket : t \in tcg_tickets}
  IN /\ \A v \in value : v.owner \in ids
     /\ \A r \in remote_data : r.owner \in ids

\* both cycles have ended, were for the same (remote_id, connection_id), and
\* both lookups saw no record
BothFirstTime ==
  /\ \A p \in Cycles : inflight[p].pc = "done" /\ inflight[p].seen = {}
  /\ \A p \in Cycles : inflight[p].t.err = ""
  /\ CallKey(inflight["A"].a) = CallKey(inflight["B"].a)

\* C15: two addTicket cycles for the same (remote_id, connection_id) whose
\* lookups both saw no record end with exactly one record for the key and
\* with both cycles returning.
C15_ConcurrentFirstPush ==
  BothFirstTime
  => /\ Cardinality(TicketsOf(tcg_tickets, CallKey(inflight["A"].a))) = 1
     /\ \A p \in Cycles : inflight[p].err = ""

\* the places of the log of the last call where x was done
At(log, x) == {i \in 1..Len(log) : log[i] = x}

\* C16: in every addTicket and addAttachment call, the audit event write and
\* the webhook dispatch come after the record upsert has completed, the audit
\* event write comes before the dispatch, and a call dispatches a webhook only
\* when its upsert committed a record that is in the store.
C16_NotifyStep ==
  (Called("addTicket") \/ Called("addAttachment"))
  => LET log == last'.log
     IN /\ Cardinality(At(log, "event")) = Len(events') - Len(events)
        /\ Cardinality(At(log, "webhook")) = Len(webhooks') - Len(webhooks)
        /\ \A i \in At(log, "event") \cup At(log, "webhook") :
              \E j \in At(log, "upsert") : j < i
        /\ \A i \in At(log, "webhook") : \E j \in At(log, "event") : j < i
        /\ At(log, "webhook") # {}
             => /\ last'.upserted
                /\ last'.upsertId \in {t.id_tcg_ticket : t \in tcg_tickets'}
                                        \cup {r.id : r \in tcg_attachments'}

C16_NotifyAfterCommit == [][C16_NotifyStep]_vars

C16_Witness ==
  /\ last.op = "addAttachment" /\ last.existing # ""
  /\ last.log = <<"upsert", "event", "webhook">>
  /\ ops = 2 /\ tcg_tickets # {}

\* C17: when the connector throws during addTicket, addTicket fails with the
\* connector's error, the connector has been invoked exactly once in the
\* call, and tickets, overlay, snapshots, audit events and webhook dispatches
\* are as before the call.  No addTicket call invokes the connector twice.
C17_ConnectorStep ==
  Called("addTicket")
  => /\ connectorCalls' \in {connectorCalls, connectorCalls + 1}
     /\ (last'.args.connector.throws /\ connectorCalls' # connectorCalls)
          => /\ last'.err = ErrConnector
             /\ connectorCalls' = connectorCalls + 1
             /\ UNCHANGED <<tcg_tickets, value, remote_data, events, webhooks>>

C17_ConnectorFailure == [][C17_ConnectorStep]_vars

C17_Witness ==
  /\ last.op = "addTicket" /\ last.err = ErrConnector /\ last.args.connector.throws
  /\ connectorCalls = 2 /\ Cardinality(tcg_tickets) = 1 /\ Len(events) = 1

\* id names a record of the table, and none of the connection
OnlyElsewhere(table, id, connection_id) ==
  /\ \E r \in table : r.id = id
  /\ ~\E r \in table : r.id = id /\ r.id_connection = connection_id

\* a reference of the call names a record that exists only under another
\* connection than the call's
RefOutOfScope(a) ==
  \/ OnlyElsewhere(tcg_accounts, a.data.account_id, a.connection_id)
  \/ OnlyElsewhere(tcg_contacts, a.data.contact_id, a.connection_id)
  \/ \E i \in 1..Len(a.data.assigned_to) :
        OnlyElsewhere(tcg_users, a.data.assigned_to[i], a.connection_id)
  \/ \E i \in 1..Len(a.data.attachments) :
        /\ a.data.attachments[i].kind = "id"
        /\ OnlyElsewhere(tcg_attachments, a.data.attachments[i].id, a.connection_id)

\* C24: an addTicket call of an existing linked user whose account_id,
\* contact_id, assigned_to element or attachment id names a record that exists
\* only under another connection than the call's fails with a
\* reference-not-found error, as for an id that exists nowhere: the connector
\* is not called and no ticket is written.
C24_ScopeStep ==
  (Called("addTicket") /\ LinkedUserExists(last'.args) /\ RefOutOfScope(last'.args))
  => /\ last'.err \in ReferenceNotFound
     /\ connectorCalls' = connectorCalls
     /\ tcg_tickets' = tcg_tickets

C24_TenantScopedReferences == [][C24_ScopeStep]_vars

\* C26: in an addTicket cycle that reaches desunify, the overlay rules loaded
\* for the provider and linked user are handed to desunify when the input has
\* field_mappings, and the empty rule set when it has none.
C26_GatingStep ==
  (Called("addTicket") /\ last'.desunified)
  => LET a == last'.args
         loaded == getCustomFieldMappings(a.integrationId, a.linkedUserId)
     IN /\ a.data.has_field_mappings => last'.desunifyRules = loaded
        /\ ~a.data.has_field_mappings => last'.desunifyRules = {}

C26_OverlayGating == [][C26_GatingStep]_vars

\* a cycle without field_mappings, then one with
C26_Witness ==
  /\ last.op = "addTicket" /\ last.desunified /\ last.args.data.has_field_mappings
  /\ last.desunifyRules = {"priority_custom"} /\ last.existing # ""
  /\ \E v \in value : v.slug = "priority_custom"

\* C27: in an addTicket cycle that reaches unify, the overlay rules handed to
\* unify are the rules that were handed to desunify, whether or not the input
\* has field_mappings.
C27_SameRulesStep ==
  (Called("addTicket") /\ last'.unified)
  => last'.unifyRules = last'.desunifyRules

C27_SameOverlayRules == [][C27_SameRulesStep]_vars

\* the call got past the validation of the linked user and of the account,
\* contact and assignee references
PastValidation(l) == l.err \notin {ErrLinkedUser, ErrAccount, ErrContact, ErrAssignee}

\* an attachment id given by the caller names no attachment record
AttachmentIdMissing(a) ==
  \E i \in 1..Len(a.data.attachments) :
     /\ a.data.attachments[i].kind = "id"
     /\ a.data.attachments[i].id \notin {r.id : r \in tcg_attachments}

\* C28: an addTicket call that gets to the attachments step fails with the
\* attachment reference-not-found error when an id given by the caller names
\* no attachment record; otherwise the step leaves, for every input list
\* (absent or empty, ids only, inline payloads only, or both mixed), a list of
\* the same length in which every id given is kept at its place, every inline
\* payload is replaced by the id of an attachment record created for it, and
\* every element names an attachment record of the store.
C28_ResolutionStep ==
  (Called("addTicket") /\ PastValidation(last'))
  => LET given == last'.args.data.attachments
         ids == last'.attachments
     IN IF AttachmentIdMissing(last'.args) THEN last'.err = ErrAttachment
        ELSE /\ last'.err \notin {ErrAttachment, ErrPrismaValidation}
             /\ Len(ids) = Len(given)
             /\ \A i \in 1..Len(ids) :
                   /\ \E r \in tcg_attachments' : r.id = ids[i]
                   /\ given[i].kind = "id" => ids[i] = given[i].id
                   /\ given[i].kind = "inline"
                        => \E r \in tcg_attachments' \ tcg_attachments :
                              r.id = ids[i] /\ r.file_name = given[i].file_name

C28_SubEntityResolution == [][C28_ResolutionStep]_vars

\* the input of the call carries an inline attachment payload
HasInline(a) ==
  \E i \in 1..Len(a.data.attachments) : a.data.attachments[i].kind = "inline"

\* C29: an addTicket call given inline attachment payloads that fails after
\* the attachments step and before the re-read (unknown provider, connector
\* error, upsert or overlay failure) leaves no attachment record in the store
\* that was not there before the call.
C29_NoOrphanStep ==
  (Called("addTicket") /\ HasInline(last'.args) /\ PastValidation(last')
     /\ last'.err \notin {ErrAttachment, ErrPrismaValidation}
     /\ FailedBeforeReRead(last'))
  => tcg_attachments' \subseteq tcg_attachments

C29_NoOrphanAttachments == [][C29_NoOrphanStep]_vars

\* step x is in the log before place i
Before(log, x, i) == \E j \in At(log, x) : j < i

\* C30: in every addTicket call the connector is invoked only after the
\* linked user and every reference of the input (account, contact, every
\* assignee, every attachment id) have been validated; the upsert runs only
\* after the connector call; the overlay and the snapshot are written only
\* after the upsert; and the re-read runs only after both.
C30_OrderStep ==
  Called("addTicket")
  => LET log == last'.log
         d == last'.args.data
     IN /\ \A i \in At(log, "connector") :
              /\ Before(log, "validateLinkedUser", i)
              /\ d.account_id # "" => Before(log, "account:" \o d.account_id, i)
              /\ d.contact_id # "" => Before(log, "contact:" \o d.contact_id, i)
              /\ \A k \in 1..Len(d.assigned_to) :
                    Before(log, "assignee:" \o d.assigned_to[k], i)
              /\ \A k \in 1..Len(d.attachments) :
                    d.attachments[k].kind = "id"
                    => Before(log, "attachment:" \o d.attachments[k].id, i)
        /\ \A i \in At(log, "upsert") : Before(log, "connector", i)
        /\ \A i \in At(log, "overlay") \cup At(log, "snapshot") :
              Before(log, "upsert", i)
        /\ \A i \in At(log, "reread") :
              Before(log, "overlay", i) /\ Before(log, "snapshot", i)

C30_StepOrdering == [][C30_OrderStep]_vars

\* the attachment records of a (file_name, connection_id)
AttachmentsOf(attachments, a) ==
  {r \in attachments : r.file_name = a.data.file_name
                        /\ r.id_connection = a.connection_id}

\* C34: an addAttachment call of an existing linked user leaves one record
\* for its (file_name, connection_id) when there was none and adds none when
\* there was one, which keeps its internal id and its created_at; the records
\* of every other file_name or connection are left as they were.  Called
\* twice in sequence with the same file_name and connection, the second call
\* acts on the record of the first: same internal id, one record for the pair.
C34_IdempotentStep ==
  (Called("addAttachment") /\ LinkedUserExists(last'.args))
  => LET a == last'.args
         before == AttachmentsOf(tcg_attachments, a)
         after == AttachmentsOf(tcg_attachments', a)
     IN /\ tcg_attachments \ before = tcg_attachments' \ after
        /\ Cardinality(after) = IF before = {} THEN 1 ELSE Cardinality(before)
        /\ {[id |-> r.id, created_at |-> r.created_at] : r \in before}
             \subseteq {[id |-> r.id, created_at |-> r.created_at] : r \in after}
        /\ last'.upsertId \in {r.id : r \in after}
        /\ (last.op = "addAttachment" /\ LinkedUserExists(last.args)
              /\ last.args.data.file_name = a.data.file_name
              /\ last.args.connection_id = a.connection_id)
             => /\ last'.upsertId = last.upsertId
                /\ last'.existing = last.upsertId
                /\ Cardinality(after) = Cardinality(before)

C34_AttachmentIdempotent == [][C34_IdempotentStep]_vars

\* f2 pushed twice on c1, beside the record of f1
C34_Witness ==
  /\ last.op = "addAttachment" /\ last.args.data.file_name = "f2"
  /\ last.args.connection_id = "c1" /\ last.existing # "" /\ ops = 2
  /\ Cardinality(AttachmentsOf(tcg_attachments, last.args)) = 1
  /\ Cardinality(tcg_attachments) = 2

\* C35: an addAttachment call that returns appends exactly one audit event,
\* of type ticketing.attachment.push; its re-read through getAttachment, made
\* without a linked user id and a provider id, writes no pull event.
C35_PushEventStep ==
  (Called("addAttachment") /\ last'.err = "")
  => /\ Len(events') = Len(events) + 1
     /\ SubSeq(events', 1, Len(events)) = events
     /\ events'[Len(events')].type = "ticketing.attachment.push"
     /\ events'[Len(events')].id_event = last'.event
     /\ \A i \in (Len(events) + 1)..Len(events') :
           events'[i].type # "ticketing.attachment.pull"

C35_OnePushEvent == [][C35_PushEventStep]_vars

\* an update of an existing attachment after a create, one event each
C35_Witness ==
  /\ last.op = "addAttachment" /\ last.err = "" /\ last.existing # ""
  /\ ops = 2 /\ Len(events) = 2
  /\ \A i \in 1..2 : events[i].type = "ticketing.attachment.push"

\* ------------------------------------------------- single-record claims
\* the errors by which a single-record handler says that the id has no record
NotFoundErrors(id) == {ErrUserUndefined, ErrTeamNotFound(id), ErrAttachmentNotFound}

RecordExists(entity, id) == \E r \in TableOf(entity) : r.id = id

\* C18: for every entity, get called with an id that has no record fails
\* with the handler's not-found error and writes no audit event.
C18_AbsentStep ==
  (Called("get") /\ ~RecordExists(last'.entity, last'.args.id))
  => /\ last'.err \in NotFoundErrors(last'.args.id)
     /\ events' = events

C18_AbsentNotFound == [][C18_AbsentStep]_vars

\* C19: a get call with the snapshot requested, for a record that exists and
\* has no stored snapshot, returns the record without a snapshot, for every
\* entity.
C19_MissingSnapshotStep ==
  (Called("get") /\ last'.args.remote_data
     /\ RecordExists(last'.entity, last'.args.id)
     /\ remoteDataFindFirst(DB, last'.args.id) = {})
  => /\ last'.err = ""
     /\ last'.res.id = last'.args.id
     /\ last'.res.remote_data = {}

C19_MissingSnapshot == [][C19_MissingSnapshotStep]_vars

\* C20: a list call with the snapshot requested that returns (every record of
\* its page has a stored snapshot) returns each record of the page with its
\* own snapshot, for every entity.
C20_PageSnapshots ==
  (last.op = "list" /\ last.err = "" /\ last.args.remote_data)
  => \A i \in 1..Len(last.data) :
        /\ remoteDataFindFirst(DB, last.data[i].id) # {}
        /\ last.data[i].remote_data
             = {r.data : r \in remoteDataFindFirst(DB, last.data[i].id)}
\* C21: a list call that returns appends exactly one audit event, a pull
\* event of its entity, whatever the number of records of its page (an empty
\* page included), and a list call that fails appends none.
C21_ListEventStep ==
  Called("list")
  => IF last'.err = ""
     THEN /\ Len(events') = Len(events) + 1
          /\ SubSeq(events', 1, Len(events)) = events
          /\ events'[Len(events')].type = "ticketing." \o last'.entity \o ".pull"
     ELSE events' = events

C21_OneEventPerList == [][C21_ListEventStep]_vars

\* a failed call, then a call that returns an empty page
C21_Witness ==
  /\ last.op = "list" /\ last.err = "" /\ last.data = <<>>
  /\ ops = 2 /\ Len(events) = 1
\* C23: prev_cursor of a list call that returns is null when the call had no
\* cursor, and otherwise is the token the caller supplied: the caller's cursor
\* in the cursor encoding.
C23_PrevCursor ==
  (last.op = "list" /\ last.err = "")
  => /\ last.args.token = "" => last.prev_cursor = ""
     /\ last.args.token # ""
          => /\ last.prev_cursor = last.args.token
             /\ last.prev_cursor = Base64(last.args.cursor)

\* a call with a cursor that is not the next_cursor of the call before it
C23_Witness ==
  /\ last.op = "list" /\ last.err = "" /\ ~last.continued /\ ops = 2
  /\ last.args.token = Base64(RecId(last.entity, 2))
  /\ last.prev_cursor = last.args.token /\ last.prev_cursor # last.args.cursor

\* -------------------------------------------------------- webhook claims
\* the error of spec 6 for a provider key without an implementation
ErrUnknownProvider == "UnknownProvider"

\* the provider key the call dispatches by: the provider_slug of the
\* connection, or the connector name; "" when the connection does not exist
ProviderKey(l) ==
  IF l.op = "handleExternalIncomingWebhook" THEN l.args.connector_name
  ELSE LET found == {c \in connections : c.id_connection = l.args.id_connection}
       IN IF found = {} THEN "" ELSE (CHOOSE c \in found : TRUE).provider_slug

\* C25: createExternalWebhook for a connection whose provider has no
\* implementation, and handleExternalIncomingWebhook for a connector name that
\* has none, end in the unknown-provider error and never return normally with
\* an undefined result.
C25_UnknownProviderStep ==
  ((Called("createExternalWebhook") \/ Called("handleExternalIncomingWebhook"))
     /\ ProviderKey(last') # "" /\ ProviderKey(last') \notin HandledProviders)
  => /\ last'.err = ErrUnknownProvider
     /\ ~(last'.err = "" /\ last'.res = Undefined)

C25_UnknownProviderLoud == [][C25_UnknownProviderStep]_vars

\* ------------------------------------------------------ list and get claims
\* what the single-record handler of the entity returns for the id, called
\* with the connection, the linked user, the provider and the snapshot flag
\* of the list call a
GetFor(entity, a, id) ==
  LET g == [ id |-> id, connection_id |-> a.connection_id, project_id |-> a.project_id,
             integrationId |-> a.integrationId, linkedUserId |-> a.linkedUserId,
             remote_data |-> a.remote_data ]
  IN CASE entity = "account" -> getAccount(DB, g)
       [] entity = "contact" -> getContact(DB, g)
       [] entity = "user" -> getUser(DB, g)
       [] entity = "team" -> getTeam(DB, g)
       [] OTHER -> getAttachment(DB, id, g.linkedUserId, g.integrationId,
                                 g.connection_id, g.remote_data)

\* the two records agree on the columns, on the overlay and its shape, and on
\* the snapshot
SameRecord(r, g) ==
  /\ r.id = g.id
  /\ r.created_at = g.created_at
  /\ r.field_mappings = g.field_mappings
  /\ r.remote_data = g.remote_data

\* C31: every record of a page returned by a list call is equal, overlay
\* shape and snapshot included, to the record the entity's get returns for
\* the same id with the same snapshot flag.
C31_ListGetAgree ==
  (last.op = "list" /\ last.err = "")
  => \A i \in 1..Len(last.data) :
        LET got == GetFor(last.entity, last.args, last.data[i].id)
        IN got.err = "" /\ SameRecord(last.data[i], got.res)

\* the connection of the record the id names
ConnectionOf(entity, id) == (CHOOSE r \in TableOf(entity) : r.id = id).id_connection

\* C32: every record of a page returned by a list call, at any cursor and any
\* limit, is a record of the connection of the call, and a next_cursor that is
\* not null encodes the id of a record of that connection.
C32_ListIsolation ==
  (last.op = "list" /\ last.err = "")
  => /\ \A i \in 1..Len(last.data) :
           /\ RecordExists(last.entity, last.data[i].id)
           /\ ConnectionOf(last.entity, last.data[i].id) = last.args.connection_id
     /\ last.next_cursor # ""
          => \E r \in TableOf(last.entity) :
                /\ Base64(r.id) = last.next_cursor
                /\ r.id_connection = last.args.connection_id

\* a record of another connection lies between the page and its next_cursor
C32_Witness ==
  /\ last.op = "list" /\ last.err = "" /\ last.args.limit = 1
  /\ PageIds(last.data) = <<RecId(last.entity, 1)>>
  /\ last.next_cursor = Base64(RecId(last.entity, 3))
  /\ ConnectionOf(last.entity, RecId(last.entity, 2)) # last.args.connection_id

\* C33: a get called for one connection never returns a record of another
\* connection: an id that names a record of another connection is treated as
\* an id that names no record, and no pull event is written for it.
C33_GetIsolationStep ==
  (Called("get") /\ RecordExists(last'.entity, last'.args.id)
     /\ ConnectionOf(last'.entity, last'.args.id) # last'.args.connection_id)
  => /\ last'.err # ""
     /\ last'.res.id = ""
     /\ events' = events

C33_GetIsolation == [][C33_GetIsolationStep]_vars

\* ------------------------------------------------------- pagination progress
\* the record a next_cursor token names
NextRecordId == DecodeCursor(session.entity, last.next_cursor)

\* the page of the last call holds at most limit records, and a non-null
\* next_cursor names a record that is not in the page and was created after
\* every record of the page
PageWithinLimit ==
  /\ Len(last.data) <= last.args.limit
  /\ last.next_cursor # ""
     => /\ NextRecordId \in {r.id : r \in ConnRecords}
        /\ \A i \in 1..Len(last.data) :
              /\ last.data[i].id # NextRecordId
              /\ CreatedAt(last.data[i].id) < CreatedAt(NextRecordId)

\* the chain moves forward and ends: a non-null next_cursor names a record
\* created after the one the call started at, and a chain over N records that
\* has not reached a null next_cursor has made at most N calls
ChainAdvances ==
  /\ (last.args.cursor # "" /\ last.next_cursor # "")
     => CreatedAt(last.args.cursor) < CreatedAt(NextRecordId)
  /\ iter.active => ops <= Cardinality(ConnRecords)

\* C36 as stated, for every limit including 0: every page of a chain that
\* follows next_cursor holds at most limit records, next_cursor lies beyond the
\* page, and the chain advances until next_cursor is null.
C36_ProgressAnyLimit ==
  (last.op = "list" /\ last.err = "") => PageWithinLimit /\ ChainAdvances

\* C36: in a chain of list calls that follows next_cursor with a fixed limit,
\* every page holds at most limit records and a non-null next_cursor names a
\* record outside the page, created after every record of the page; with
\* limit >= 1 each non-null next_cursor lies strictly beyond the cursor the
\* call started at, and the chain over N records reaches a null next_cursor
\* within N calls.
C36_Progress ==
  (last.op = "list" /\ last.err = "")
  => /\ PageWithinLimit
     /\ last.args.limit >= 1 => ChainAdvances

\* 3 records, limit 1: the second call returns the second record and a
\* next_cursor naming the third
C36_Witness ==
  /\ last.op = "list" /\ last.err = "" /\ last.continued
  /\ last.args.limit = 1 /\ ops = 2 /\ Cardinality(ConnRecords) = 3
  /\ Len(last.data) = 1 /\ iter.active
  /\ CreatedAt(last.data[1].id) < CreatedAt(NextRecordId)

\* ------------------------------------------------ paging between writes
\* the places of a chain's collected ids that the connection held at its start
HeldAtStart(it) == {i \in 1..Len(it.collected) : it.collected[i] \in it.began}

\* Of the records the connection held when the chain started: none is
\* collected twice, they are collected oldest first with none skipped, and
\* a chain that reached a null next_cursor has collected all of them.
StartRecordsInOrder(it) ==
  LET ids == it.collected
      old == HeldAtStart(it)
  IN /\ \A i, j \in old : (ids[i] = ids[j] => i = j)
     /\ \A i, j \in old : i < j => CreatedAt(ids[i]) < CreatedAt(ids[j])
     /\ \A b \in it.began :
          b \notin {ids[i] : i \in old}
          => \A i \in old : CreatedAt(ids[i]) < CreatedAt(b)
     /\ it.done => it.began \subseteq {ids[i] : i \in old}

\* every attachment the connection held when the chain started has a snapshot
StartRecordsHaveSnapshot(it) == \A b \in it.began : remoteDataFindFirst(DB, b) # {}

\* C37: while addAttachment calls (creates and updates) arrive between the
\* pages of a getAttachments chain, no call of the chain fails with the
\* invalid-cursor error, the attachments the connection held when the chain
\* started are returned oldest first, none twice and none skipped, and a chain
\* that has ended, at a null next_cursor or at a failing call, has returned
\* every one of them; stated for chains whose attachments held at the start
\* each have their stored snapshot.
C37_InterleavedStep ==
  Called("list")
  => /\ last'.err # ErrCursor
     /\ StartRecordsInOrder(iter')
     /\ (iter'.failed /\ StartRecordsHaveSnapshot(iter'))
        => iter'.began \subseteq {iter'.collected[i] : i \in HeldAtStart(iter')}

C37_InterleavedPaging == [][C37_InterleavedStep]_vars

\* ---------------------------------------------------- enrichment claims
\* the snapshot stored for an id
SnapshotOf(id) == {r.data : r \in remoteDataFindFirst(DB, id)}

====
